---- MODULE Spec2Model ----
(***************************************************************************)
(* Model of the vector index of peruguide-rag                              *)
(* (src/vector_store/faiss_store.py): FaissVectorStore over a FAISS        *)
(* IndexFlatL2, its id<->position maps, metadata, persistence and search.  *)
(*                                                                         *)
(* Vectors are tuples of naturals, so float32 rounding is not modelled.    *)
(* Python dicts whose iteration order the code observes (id_to_index) are  *)
(* sequences of <<key, value>> pairs in insertion order; the other dicts   *)
(* are functions.  The filters and metadata dicts are functions from keys  *)
(* to values; None and the empty dict are both the empty function (the     *)
(* code tests them by truthiness only).                                    *)
(***************************************************************************)
EXTENDS Integers, Sequences, FiniteSets, TLC

(***************************************************************************)
(* Bounds of the model and the inputs the callers draw from.               *)
(***************************************************************************)
MaxSize == 2

DiskSize == 2

MaxBatch == 2

MaxK == 2

BulkSize == 11

\* rows in the index at which the threads stop calling add
ConcSize == 2

\* calls that the threads make on the shared store
MaxCalls == 4

\* characters in a text that is split
MaxText == 5

\* the largest chunk_size a splitter is constructed with
MaxChunk == 2

\* characters in a text that is split with metadata
MetaText == 3

\* values of uuid4 generated
MaxUuids == 6

OverFetch == 10

Ids == {"a", "b"}

Dims == {1, 2}

Vecs == {<<0>>, <<1>>, <<0, 0>>}

DiskVecs == {<<0>>, <<0, 0>>, <<0, 1>>}

Keys == {"category"}

Values == {"A", "B"}

EmptyDict == [x \in {} |-> "A"]

Metas == {EmptyDict, [x \in Keys |-> "A"]}

DiskMetas == {[x \in Keys |-> "A"]}

Filters == {EmptyDict} \cup {[x \in Keys |-> v] : v \in Values}

SeqsUpTo(S, n) == UNION {[1..m -> S] : m \in 0..n}

NonEmptySeqsUpTo(S, n) == UNION {[1..m -> S] : m \in 1..n}

Min(x, y) == IF x <= y THEN x ELSE y

Range(s) == {s[i] : i \in 1..Len(s)}

(***************************************************************************)
(* Python dict kept in insertion order: a sequence of <<key, value>>.      *)
(***************************************************************************)
DictKeys(d) == [i \in 1..Len(d) |-> d[i][1]]

DictHas(d, key) == \E i \in 1..Len(d) : d[i][1] = key

DictGet(d, key) == d[CHOOSE i \in 1..Len(d) : d[i][1] = key][2]

DictPut(d, key, value) ==
    IF DictHas(d, key)
    THEN [i \in 1..Len(d) |-> IF d[i][1] = key THEN <<key, value>> ELSE d[i]]
    ELSE Append(d, <<key, value>>)

\* dict equality ignores the insertion order
DictAsMap(d) == [key \in Range(DictKeys(d)) |-> DictGet(d, key)]

\* d[key] = value on a dict held as a function
MapPut(m, key, value) ==
    [x \in (DOMAIN m) \cup {key} |-> IF x = key THEN value ELSE m[x]]

EmptyMap == [x \in {} |-> 0]

(***************************************************************************)
(* The FAISS IndexFlatL2: its dimension d and the stored vectors xb, row   *)
(* p (0-based) at xb[p + 1].                                               *)
(***************************************************************************)
IndexFlatL2(d) == [d |-> d, xb |-> <<>>]

ntotal(idx) == Len(idx.xb)

\* index.add(x) asserts the rows' dimension; callers pass a non-empty x
IndexAddOk(idx, x) == \A i \in 1..Len(x) : Len(x[i]) = idx.d

IndexAdd(idx, x) == [idx EXCEPT !.xb = idx.xb \o x]

IndexReset(idx) == [idx EXCEPT !.xb = <<>>]

IndexReconstructOk(idx, p) == p >= 0 /\ p < ntotal(idx)

IndexReconstruct(idx, p) == idx.xb[p + 1]

RECURSIVE SumSq(_, _, _)
SumSq(u, v, i) ==
    IF i > Len(u) THEN 0
    ELSE (u[i] - v[i]) * (u[i] - v[i]) + SumSq(u, v, i + 1)

\* squared Euclidean distance
L2Sqr(u, v) == SumSq(u, v, 1)

\* the distances of q to the rows of the index, from row p on
RECURSIVE Distances(_, _, _)
Distances(idx, q, p) ==
    IF p > ntotal(idx) THEN <<>>
    ELSE <<L2Sqr(q, idx.xb[p])>> \o Distances(idx, q, p + 1)

\* number of rows that come before row p in the result of a search: nearer
\* rows first, rows at the same distance by position
Rank(dist, p) ==
    Cardinality({r \in 1..Len(dist) :
        \/ dist[r] < dist[p]
        \/ dist[r] = dist[p] /\ r < p})

RECURSIVE Ranks(_, _)
Ranks(dist, p) ==
    IF p > Len(dist) THEN <<>>
    ELSE <<Rank(dist, p)>> \o Ranks(dist, p + 1)

\* the hits i..n of a search: position in the index and distance
RECURSIVE Nearest(_, _, _, _)
Nearest(dist, ranks, n, i) ==
    IF i > n THEN <<>>
    ELSE LET p == CHOOSE r \in 1..Len(ranks) : ranks[r] = i - 1
         IN <<[idx |-> p - 1, distance |-> dist[p]]>>
                \o Nearest(dist, ranks, n, i + 1)

\* index.search(q, n) for n >= 1: the n nearest rows, each with its position
\* and distance; where the index has fewer than n rows faiss fills up with
\* the position -1, which no id is recorded for and the caller's loop skips
IndexSearch(idx, q, n) ==
    LET dist == Distances(idx, q, 1)
    IN Nearest(dist, Ranks(dist, 1), Min(n, ntotal(idx)), 1)

\* faiss.write_index / faiss.read_index: header and the flat row codes
WriteIndex(idx) ==
    [d |-> idx.d, ntotal |-> ntotal(idx),
     codes |-> [j \in 1..(ntotal(idx) * idx.d) |->
                  idx.xb[((j - 1) \div idx.d) + 1][((j - 1) % idx.d) + 1]]]

ReadIndex(blob) ==
    [d |-> blob.d,
     xb |-> [p \in 1..blob.ntotal |->
               [c \in 1..blob.d |-> blob.codes[(p - 1) * blob.d + c]]]]

(***************************************************************************)
(* str(k) and int(s) on the position keys of index_to_id: a decimal string *)
(* is the sequence of its digits.                                          *)
(***************************************************************************)
Digit == <<"0", "1", "2", "3", "4", "5", "6", "7", "8", "9">>

RECURSIVE StrOfInt(_)
StrOfInt(k) ==
    IF k < 10 THEN <<Digit[k + 1]>>
    ELSE Append(StrOfInt(k \div 10), Digit[(k % 10) + 1])

DigitValue(c) == (CHOOSE i \in 1..10 : Digit[i] = c) - 1

RECURSIVE IntOfStr(_)
IntOfStr(s) ==
    IF Len(s) = 1 THEN DigitValue(s[1])
    ELSE 10 * IntOfStr(SubSeq(s, 1, Len(s) - 1)) + DigitValue(s[Len(s)])

(***************************************************************************)
(* FaissVectorStore as a record of its fields, and its methods as          *)
(* operators from a store to the store after the call, the error raised    *)
(* ("" when the call returns) and the value returned.                      *)
(***************************************************************************)
ErrNone == ""

ErrDimension == "ValueError: dimension"

ErrIdsLength == "ValueError: number of ids"

ErrMetadatasLength == "ValueError: number of metadatas"

ErrDuplicate == "ValueError: duplicate ids"

ErrFaissAssert == "AssertionError: faiss"

ErrKey == "KeyError"

ErrReconstruct == "RuntimeError: faiss reconstruct"

ErrNoPath == "FileNotFoundError: path"

ErrNoIndexFile == "FileNotFoundError: index.faiss"

ErrNoMetadataFile == "FileNotFoundError: metadata.json"

Outcome(s, err, ret) == [s |-> s, err |-> err, ret |-> ret]

\* FaissVectorStore.__init__
NewStore(d) ==
    [dimension |-> d,
     index |-> IndexFlatL2(d),
     id_to_metadata |-> EmptyMap,
     id_to_index |-> <<>>,
     index_to_id |-> EmptyMap]

\* FaissVectorStore.clear
clear(s) ==
    [s EXCEPT !.index = IndexReset(s.index),
              !.id_to_metadata = EmptyMap,
              !.id_to_index = <<>>,
              !.index_to_id = EmptyMap]

\* shape[1] of a 2-D array with at least one row
EmbDim(embeddings) == Len(embeddings[1])

\* the loop of add with the position of ids[i] taken one too far
RECURSIVE StoreMappings_OffByOne(_, _, _, _, _, _)
StoreMappings_OffByOne(s, start_index, ids, hasMetadatas, metadatas, i) ==
    IF i > Len(ids) THEN s
    ELSE StoreMappings_OffByOne(
           [s EXCEPT
              !.id_to_index = DictPut(s.id_to_index, ids[i], start_index + i),
              !.index_to_id = MapPut(s.index_to_id, start_index + i, ids[i]),
              !.id_to_metadata =
                  MapPut(s.id_to_metadata, ids[i],
                         IF hasMetadatas THEN metadatas[i] ELSE EmptyDict)],
           start_index, ids, hasMetadatas, metadatas, i + 1)

\* the loop of add that records the mappings of ids[i..]
RECURSIVE StoreMappings(_, _, _, _, _, _)
StoreMappings(s, start_index, ids, hasMetadatas, metadatas, i) ==
    IF i > Len(ids) THEN s
    ELSE LET doc_id == ids[i]
             faiss_index == start_index + (i - 1)
         IN StoreMappings(
              [s EXCEPT
                 !.id_to_index = DictPut(s.id_to_index, doc_id, faiss_index),
                 !.index_to_id = MapPut(s.index_to_id, faiss_index, doc_id),
                 !.id_to_metadata =
                     MapPut(s.id_to_metadata, doc_id,
                            IF hasMetadatas THEN metadatas[i] ELSE EmptyDict)],
              start_index, ids, hasMetadatas, metadatas, i + 1)

\* the ids of the call that are already stored
DuplicateIds(s, ids) == Range(ids) \cap Range(DictKeys(s.id_to_index))

\* add without the check for ids that are already stored
add_NoDuplicateCheck(s, embeddings, ids, hasMetadatas, metadatas) ==
    IF EmbDim(embeddings) # s.dimension THEN Outcome(s, ErrDimension, 0)
    ELSE IF Len(ids) # Len(embeddings) THEN Outcome(s, ErrIdsLength, 0)
    ELSE IF hasMetadatas /\ Len(metadatas) # Len(embeddings)
         THEN Outcome(s, ErrMetadatasLength, 0)
    ELSE IF ~IndexAddOk(s.index, embeddings) THEN Outcome(s, ErrFaissAssert, 0)
    ELSE Outcome(StoreMappings([s EXCEPT !.index = IndexAdd(s.index, embeddings)],
                               ntotal(s.index), ids, hasMetadatas, metadatas, 1),
                 ErrNone, 0)

\* FaissVectorStore.add
add(s, embeddings, ids, hasMetadatas, metadatas) ==
    IF EmbDim(embeddings) # s.dimension THEN Outcome(s, ErrDimension, 0)
    ELSE IF Len(ids) # Len(embeddings) THEN Outcome(s, ErrIdsLength, 0)
    ELSE IF hasMetadatas /\ Len(metadatas) # Len(embeddings)
         THEN Outcome(s, ErrMetadatasLength, 0)
    ELSE IF DuplicateIds(s, ids) # {} THEN Outcome(s, ErrDuplicate, 0)
    ELSE IF ~IndexAddOk(s.index, embeddings) THEN Outcome(s, ErrFaissAssert, 0)
    ELSE LET start_index == ntotal(s.index)
             appended == [s EXCEPT !.index = IndexAdd(s.index, embeddings)]
         IN Outcome(StoreMappings(appended, start_index, ids,
                                  hasMetadatas, metadatas, 1),
                    ErrNone, 0)

\* FaissVectorStore._matches_filters
_matches_filters(metadata, filters) ==
    \A key \in DOMAIN filters :
        /\ key \in DOMAIN metadata
        /\ metadata[key] = filters[key]

\* score = 1 / (1 + distance), kept as the fraction num / den
Score(distance) == [num |-> 1, den |-> 1 + distance]

\* the loop of search over the hits of the index, from hit i on
RECURSIVE SearchLoop(_, _, _, _, _, _)
SearchLoop(s, k, filters, hits, i, results) ==
    IF i > Len(hits) THEN results
    ELSE LET faiss_idx == hits[i].idx
             distance == hits[i].distance
         IN IF faiss_idx \notin DOMAIN s.index_to_id
            THEN SearchLoop(s, k, filters, hits, i + 1, results)
            ELSE LET doc_id == s.index_to_id[faiss_idx]
                     metadata == IF doc_id \in DOMAIN s.id_to_metadata
                                 THEN s.id_to_metadata[doc_id] ELSE EmptyDict
                 IN IF filters # EmptyDict /\ ~_matches_filters(metadata, filters)
                    THEN SearchLoop(s, k, filters, hits, i + 1, results)
                    ELSE LET appended ==
                                 Append(results,
                                        [id |-> doc_id,
                                         score |-> Score(distance),
                                         distance |-> distance,
                                         metadata |-> metadata])
                         IN IF Len(appended) >= k THEN appended
                            ELSE SearchLoop(s, k, filters, hits, i + 1, appended)

\* the number of hits search asks the index for
SearchK(s, k, filters) ==
    Min(IF filters # EmptyDict THEN k * OverFetch ELSE k, ntotal(s.index))

\* FaissVectorStore.search
search(s, q, k, filters) ==
    IF Len(q) # s.dimension THEN Outcome(s, ErrDimension, <<>>)
    ELSE IF ntotal(s.index) = 0 THEN Outcome(s, ErrNone, <<>>)
    ELSE IF Len(q) # s.index.d \/ SearchK(s, k, filters) <= 0
         THEN Outcome(s, ErrFaissAssert, <<>>)
    ELSE Outcome(s, ErrNone,
                 SearchLoop(s, k, filters,
                            IndexSearch(s.index, q, SearchK(s, k, filters)),
                            1, <<>>))

\* FaissVectorStore.delete
delete(s, ids) ==
    LET existing_ids == SelectSeq(ids, LAMBDA doc_id : DictHas(s.id_to_index, doc_id))
        remaining_ids == SelectSeq(DictKeys(s.id_to_index),
                                   LAMBDA doc_id : doc_id \notin Range(existing_ids))
        remaining_indices == [i \in 1..Len(remaining_ids) |->
                                 DictGet(s.id_to_index, remaining_ids[i])]
    IN IF existing_ids = <<>> THEN Outcome(s, ErrNone, 0)
       ELSE IF remaining_ids = <<>> THEN Outcome(clear(s), ErrNone, Len(existing_ids))
       ELSE IF \E i \in 1..Len(remaining_indices) :
                   ~IndexReconstructOk(s.index, remaining_indices[i])
            THEN Outcome(s, ErrReconstruct, 0)
       ELSE LET remaining_embeddings ==
                    [i \in 1..Len(remaining_indices) |->
                        IndexReconstruct(s.index, remaining_indices[i])]
                remaining_metadatas ==
                    [i \in 1..Len(remaining_ids) |-> s.id_to_metadata[remaining_ids[i]]]
                rebuilt == add(clear(s), remaining_embeddings, remaining_ids,
                               TRUE, remaining_metadatas)
            IN IF rebuilt.err # ErrNone THEN rebuilt
               ELSE Outcome(rebuilt.s, ErrNone, Len(existing_ids))

(***************************************************************************)
(* persist and load.  The path holds two artifacts, each a sequence that   *)
(* is empty when the file does not exist: index.faiss and metadata.json.   *)
(* json.dump keeps string keys and string values as they are; the integer  *)
(* keys of index_to_id are written as str(k) and read back with int(k).    *)
(***************************************************************************)
NoDisk == [exists |-> FALSE, index_file |-> <<>>, metadata_file |-> <<>>]

IndexToIdDump(index_to_id) ==
    [sk \in {StrOfInt(k) : k \in DOMAIN index_to_id} |->
        index_to_id[CHOOSE k \in DOMAIN index_to_id : StrOfInt(k) = sk]]

IndexToIdLoad(dumped) ==
    [k \in {IntOfStr(sk) : sk \in DOMAIN dumped} |->
        dumped[CHOOSE sk \in DOMAIN dumped : IntOfStr(sk) = k]]

\* FaissVectorStore.persist: the contents of the path after the call
persist(s) ==
    [exists |-> TRUE,
     index_file |-> <<WriteIndex(s.index)>>,
     metadata_file |->
        <<[dimension |-> s.dimension,
           num_vectors |-> ntotal(s.index),
           id_to_metadata |-> s.id_to_metadata,
           id_to_index |-> s.id_to_index,
           index_to_id |-> IndexToIdDump(s.index_to_id)]>>]

\* load that restores the metadata and id_to_index but not index_to_id
load_KeepsIndexToId(s, path) ==
    IF ~path.exists THEN Outcome(s, ErrNoPath, 0)
    ELSE IF path.index_file = <<>> THEN Outcome(s, ErrNoIndexFile, 0)
    ELSE LET read == [s EXCEPT !.index = ReadIndex(path.index_file[1])]
         IN IF path.metadata_file = <<>> THEN Outcome(read, ErrNoMetadataFile, 0)
            ELSE IF path.metadata_file[1].dimension # s.dimension
                 THEN Outcome(read, ErrDimension, 0)
            ELSE Outcome(
                   [read EXCEPT
                      !.id_to_metadata = path.metadata_file[1].id_to_metadata,
                      !.id_to_index = path.metadata_file[1].id_to_index],
                   ErrNone, 0)

\* FaissVectorStore.load
load(s, path) ==
    IF ~path.exists THEN Outcome(s, ErrNoPath, 0)
    ELSE IF path.index_file = <<>> THEN Outcome(s, ErrNoIndexFile, 0)
    ELSE LET read == [s EXCEPT !.index = ReadIndex(path.index_file[1])]
         IN IF path.metadata_file = <<>> THEN Outcome(read, ErrNoMetadataFile, 0)
            ELSE LET metadata_dict == path.metadata_file[1]
                 IN IF metadata_dict.dimension # s.dimension
                    THEN Outcome(read, ErrDimension, 0)
                    ELSE Outcome(
                           [read EXCEPT
                              !.id_to_metadata = metadata_dict.id_to_metadata,
                              !.id_to_index = metadata_dict.id_to_index,
                              !.index_to_id = IndexToIdLoad(metadata_dict.index_to_id)],
                           ErrNone, 0)

(***************************************************************************)
(* RecursiveCharacterTextSplitter.  A text is the sequence of its          *)
(* characters, a separator likewise; length_function is len.               *)
(***************************************************************************)
Chars == {"a", ".", " ", "\n"}

Whitespace == {" ", "\n"}

DefaultSeparators == <<<<"\n", "\n">>, <<"\n">>, <<".", " ">>, <<" ">>, <<>>>>

\* the separator lists the splitters are constructed with
SeparatorLists == {DefaultSeparators, <<<<" ">>>>, <<<<".", " ">>, <<>>>>}

\* the texts of up to n characters
TextsUpTo(n) == UNION {[1..m -> Chars] : m \in 0..n}

\* the configurations __init__ accepts
Splitters ==
    {c \in [chunk_size : 1..MaxChunk, chunk_overlap : 0..MaxChunk,
            separators : SeparatorLists, keep_separator : BOOLEAN] :
        c.chunk_overlap < c.chunk_size}

\* __init__ with its default arguments
DefaultSplitter ==
    [chunk_size |-> 512, chunk_overlap |-> 64, separators |-> DefaultSeparators,
     keep_separator |-> TRUE]

\* "".join(parts)
RECURSIVE Join(_)
Join(parts) == IF parts = <<>> THEN <<>> ELSE Head(parts) \o Join(Tail(parts))

\* text.strip() is empty
IsBlank(text) == \A i \in 1..Len(text) : text[i] \in Whitespace

\* text[-n:] for n > 0
LastChars(text, n) ==
    IF Len(text) <= n THEN text ELSE SubSeq(text, Len(text) - n + 1, Len(text))

\* re.split without the capturing group: the matched separators are dropped
RECURSIVE ReSplit_DropsSeparator(_, _, _, _)
ReSplit_DropsSeparator(text, separator, i, part) ==
    IF i > Len(text) THEN <<part>>
    ELSE IF /\ i + Len(separator) - 1 <= Len(text)
            /\ SubSeq(text, i, i + Len(separator) - 1) = separator
         THEN <<part>> \o ReSplit_DropsSeparator(text, separator, i + Len(separator), <<>>)
    ELSE ReSplit_DropsSeparator(text, separator, i + 1, Append(part, text[i]))

\* re.split("(" + re.escape(separator) + ")", text) from position i on, with
\* part the characters since the last match: the parts between the matches
\* alternate with the matched separators
RECURSIVE ReSplit(_, _, _, _)
ReSplit(text, separator, i, part) ==
    IF i > Len(text) THEN <<part>>
    ELSE IF /\ i + Len(separator) - 1 <= Len(text)
            /\ SubSeq(text, i, i + Len(separator) - 1) = separator
         THEN <<part, separator>> \o ReSplit(text, separator, i + Len(separator), <<>>)
    ELSE ReSplit(text, separator, i + 1, Append(part, text[i]))

\* list(text)
CharList(text) == [i \in 1..Len(text) |-> <<text[i]>>]

\* [s for s in splits if s]
NonEmpty(splits) == SelectSeq(splits, LAMBDA s : s # <<>>)

\* the loop that joins splits[i] with splits[i + 1], i = 1, 3, ...
RECURSIVE MergeWithSeparator(_, _)
MergeWithSeparator(splits, i) ==
    IF i > Len(splits) THEN <<>>
    ELSE IF i + 1 <= Len(splits)
         THEN <<splits[i] \o splits[i + 1]>> \o MergeWithSeparator(splits, i + 2)
    ELSE <<splits[i]>>

\* _split_text_recursive, and its loop over the splits from split i on
RECURSIVE _split_text_recursive(_, _, _)
RECURSIVE FinalSplits(_, _, _, _)
_split_text_recursive(self, text, separators) ==
    IF separators = <<>> THEN (IF text # <<>> THEN <<text>> ELSE <<>>)
    ELSE LET separator == Head(separators)
             remaining_separators == Tail(separators)
             splits == NonEmpty(IF separator # <<>>
                                THEN ReSplit(text, separator, 1, <<>>)
                                ELSE CharList(text))
             merged_splits == IF self.keep_separator /\ separator # <<>>
                              THEN MergeWithSeparator(splits, 1)
                              ELSE splits
         IN FinalSplits(self, merged_splits, remaining_separators, 1)

\* the same loop with the splits that are too large kept as they are
FinalSplits_KeepsLarge(self, splits, remaining_separators, i) == splits

FinalSplits(self, splits, remaining_separators, i) ==
    IF i > Len(splits) THEN <<>>
    ELSE (IF Len(splits[i]) <= self.chunk_size
          THEN <<splits[i]>>
          ELSE _split_text_recursive(self, splits[i], remaining_separators))
         \o FinalSplits(self, splits, remaining_separators, i + 1)

\* the loop of _merge_splits with the overlap taken from the start of the
\* finished chunk
RECURSIVE MergeLoop_OverlapFromStart(_, _, _, _, _, _, _)
MergeLoop_OverlapFromStart(splits, i, chunks, current_chunk, current_length, chunk_size, chunk_overlap) ==
    IF i > Len(splits)
    THEN IF current_chunk # <<>> THEN Append(chunks, Join(current_chunk)) ELSE chunks
    ELSE LET split_ == splits[i]
             split_length == Len(split_)
         IN IF current_length + split_length > chunk_size /\ current_chunk # <<>>
            THEN LET chunk_text == Join(current_chunk)
                     overlap_text == IF chunk_overlap > 0
                                     THEN SubSeq(chunk_text, 1, chunk_overlap) ELSE <<>>
                 IN MergeLoop_OverlapFromStart(
                        splits, i + 1, Append(chunks, chunk_text),
                        IF overlap_text # <<>> THEN <<overlap_text, split_>>
                        ELSE <<split_>>,
                        Len(overlap_text) + split_length, chunk_size, chunk_overlap)
            ELSE MergeLoop_OverlapFromStart(
                     splits, i + 1, chunks, Append(current_chunk, split_),
                     current_length + split_length, chunk_size, chunk_overlap)

\* the loop of _merge_splits from split i on
RECURSIVE MergeLoop(_, _, _, _, _, _, _)
MergeLoop(splits, i, chunks, current_chunk, current_length, chunk_size, chunk_overlap) ==
    IF i > Len(splits)
    THEN IF current_chunk # <<>> THEN Append(chunks, Join(current_chunk)) ELSE chunks
    ELSE LET split_ == splits[i]
             split_length == Len(split_)
         IN IF current_length + split_length > chunk_size /\ current_chunk # <<>>
            THEN LET chunk_text == Join(current_chunk)
                     overlap_text == IF chunk_overlap > 0
                                     THEN LastChars(chunk_text, chunk_overlap) ELSE <<>>
                 IN MergeLoop(splits, i + 1, Append(chunks, chunk_text),
                              IF overlap_text # <<>> THEN <<overlap_text, split_>>
                              ELSE <<split_>>,
                              Len(overlap_text) + split_length, chunk_size, chunk_overlap)
            ELSE MergeLoop(splits, i + 1, chunks, Append(current_chunk, split_),
                           current_length + split_length, chunk_size, chunk_overlap)

\* RecursiveCharacterTextSplitter._merge_splits
_merge_splits(splits, chunk_size, chunk_overlap) ==
    IF splits = <<>> THEN <<>>
    ELSE MergeLoop(splits, 1, <<>>, <<>>, 0, chunk_size, chunk_overlap)

\* the segments split_text hands to _merge_splits
Segments(self, text) ==
    IF text = <<>> \/ IsBlank(text) THEN <<>>
    ELSE _split_text_recursive(self, text, self.separators)

\* RecursiveCharacterTextSplitter.split_text
split_text(self, text) ==
    _merge_splits(Segments(self, text), self.chunk_size, self.chunk_overlap)

\* the keys split_with_metadata sets in every record
ReservedKeys == {"chunk_index", "total_chunks", "chunk_id", "chunk_text", "chunk_length"}

\* str(uuid.uuid4()) for the n-th value generated: 122 random bits, taken as
\* a value that was not generated before
uuid4(n) == n

\* the dict of a chunk in which the caller's keys take the place of the
\* chunk's
ChunkMetadata_CallerWins(metadata, idx, total_chunks, chunk_id, chunk_text) ==
    [key \in DOMAIN metadata \cup ReservedKeys |->
        IF key \in DOMAIN metadata THEN metadata[key]
        ELSE CASE key = "chunk_index" -> idx
               [] key = "total_chunks" -> total_chunks
               [] key = "chunk_id" -> chunk_id
               [] key = "chunk_text" -> chunk_text
               [] OTHER -> Len(chunk_text)]

\* the dict of chunk idx (0-based): the caller's metadata, then the five
\* keys of the chunk, which take the place of the caller's keys of that name
ChunkMetadata(metadata, idx, total_chunks, chunk_id, chunk_text) ==
    [key \in DOMAIN metadata \cup ReservedKeys |->
        CASE key = "chunk_index" -> idx
          [] key = "total_chunks" -> total_chunks
          [] key = "chunk_id" -> chunk_id
          [] key = "chunk_text" -> chunk_text
          [] key = "chunk_length" -> Len(chunk_text)
          [] OTHER -> metadata[key]]

\* RecursiveCharacterTextSplitter.split_with_metadata, n values of uuid4
\* having been generated before the call
split_with_metadata(self, text, metadata, n) ==
    LET chunks == split_text(self, text)
        total_chunks == Len(chunks)
    IN [i \in 1..total_chunks |->
           ChunkMetadata(metadata, i - 1, total_chunks, uuid4(n + i), chunks[i])]

\* the splitter has not been called
NoSplit ==
    [op |-> "none", text |-> <<>>, metadata |-> EmptyDict,
     splits |-> <<>>, chunks |-> <<>>, records |-> <<>>]

(***************************************************************************)
(* BatchEmbeddingProcessor.  A processor is its embedder's model name and  *)
(* use_cache; the processors share one cache directory.  The embedder is   *)
(* the capability behind BaseEmbedder: encode and encode_batch return a    *)
(* vector per text or raise, and two runs on one text need not return the  *)
(* same floats.  A vector is named by the model and text it was computed   *)
(* for and by the run that computed it.                                    *)
(***************************************************************************)
\* the model names of the embedders
ModelNames == {<<"m">>, <<"m", ":", "x">>}

\* the texts that are embedded
CacheTexts == {<<"x">>, <<"x", ":", "x">>}

Runs == {1, 2}

Processor(model_name, use_cache) == [model_name |-> model_name, use_cache |-> use_cache]

Processors == {Processor(model_name, use_cache) : model_name \in ModelNames, use_cache \in BOOLEAN}

Vector(model_name, text, run) == [text |-> text, model_name |-> model_name, run |-> run]

\* what embedder.encode(text) may return
Encodings(model_name, text) == {Vector(model_name, text, run) : run \in Runs}

\* an embeddings file that np.load raises on
Corrupt == Vector(<<>>, <<>>, 0)

\* a metadata file that was not written to its end
CorruptMeta == [text |-> <<>>, model_name |-> <<>>]

\* hashlib.sha256(content).hexdigest(), taken as one-to-one on the contents
sha256(content) == content

\* BatchEmbeddingProcessor._compute_hash
_compute_hash(self, text) == sha256(self.model_name \o <<":">> \o text)

\* the two directories of the cache
Dirs(e, m) == [embeddings |-> e, metadata |-> m]

\* _load_from_cache that hands out the file that cannot be read
_load_from_cache_ReturnsCorrupt(self, dirs, text_hash) ==
    IF ~self.use_cache THEN <<>>
    ELSE IF text_hash \in DOMAIN dirs.embeddings
         THEN <<dirs.embeddings[text_hash]>>
    ELSE <<>>

\* BatchEmbeddingProcessor._load_from_cache: the embedding, or None as <<>>
_load_from_cache(self, dirs, text_hash) ==
    IF ~self.use_cache THEN <<>>
    ELSE IF text_hash \in DOMAIN dirs.embeddings
         THEN IF dirs.embeddings[text_hash] = Corrupt THEN <<>>
              ELSE <<dirs.embeddings[text_hash]>>
    ELSE <<>>

\* how a save ends: both files written, or an exception that is caught:
\* np.save raised and left a file that cannot be read, or the write of the
\* metadata raised after the embedding was written
SaveOutcomes == {"saved", "save_torn", "metadata_torn"}

\* BatchEmbeddingProcessor._save_to_cache: the directories after the call
_save_to_cache(self, dirs, text_hash, embedding, text, outcome) ==
    IF ~self.use_cache THEN dirs
    ELSE IF outcome = "save_torn"
         THEN Dirs(MapPut(dirs.embeddings, text_hash, Corrupt), dirs.metadata)
    ELSE IF outcome = "metadata_torn"
         THEN Dirs(MapPut(dirs.embeddings, text_hash, embedding),
                   MapPut(dirs.metadata, text_hash, CorruptMeta))
    ELSE Dirs(MapPut(dirs.embeddings, text_hash, embedding),
              MapPut(dirs.metadata, text_hash,
                     [text |-> text, model_name |-> self.model_name]))

\* a write of a call: the key, whether a readable embedding was stored under
\* it, whether a file that cannot be read was, and how the save ended
Write(self, dirs, text_hash, outcome) ==
    [key |-> text_hash,
     readable |-> _load_from_cache([self EXCEPT !.use_cache = TRUE], dirs, text_hash) # <<>>,
     corrupt |-> text_hash \in DOMAIN dirs.embeddings /\ dirs.embeddings[text_hash] = Corrupt,
     outcome |-> outcome]

ErrEncode == "EncodeError"

\* the stats dict that process_batch returns
Stats(cached, computed, total) == [cached |-> cached, computed |-> computed, total |-> total]

NoStats == Stats(0, 0, 0)

\* the outcome of a call: the directories after it, the error the call
\* raised, the vectors returned, which of them came from the cache, the
\* texts the embedder was called with, one sequence per call, the error the
\* embedder raised and the writes made
Processed(dirs, err, vectors, from_cache, encoded, writes) ==
    [dirs |-> dirs, err |-> err, vectors |-> vectors, from_cache |-> from_cache,
     encoded |-> encoded, raised |-> ErrNone, writes |-> writes, stats |-> NoStats]

\* the embedder raised on the texts of encoded and the call raises its error
EncodeFailed(dirs, encoded) ==
    [dirs |-> dirs, err |-> ErrEncode, vectors |-> <<>>, from_cache |-> <<>>,
     encoded |-> encoded, raised |-> ErrEncode, writes |-> <<>>, stats |-> NoStats]

\* process_single that computes the embedding before it looks at the cache
process_single_NoLookup(self, dirs, text, encoding, outcome) ==
    LET text_hash == _compute_hash(self, text)
    IN IF encoding = <<>>
       THEN EncodeFailed(dirs, <<<<text>>>>)
       ELSE Processed(_save_to_cache(self, dirs, text_hash, encoding[1], text, outcome),
                      ErrNone, encoding, <<FALSE>>, <<<<text>>>>,
                      IF self.use_cache
                      THEN <<Write(self, dirs, text_hash, outcome)>> ELSE <<>>)

\* BatchEmbeddingProcessor.process_single; encoding is what the embedder
\* returns if it is called, <<>> when it raises
process_single(self, dirs, text, encoding, outcome) ==
    LET text_hash == _compute_hash(self, text)
        cached_embedding == _load_from_cache(self, dirs, text_hash)
    IN IF cached_embedding # <<>>
       THEN Processed(dirs, ErrNone, cached_embedding, <<TRUE>>, <<>>, <<>>)
       ELSE IF encoding = <<>>
            THEN EncodeFailed(dirs, <<<<text>>>>)
       ELSE Processed(_save_to_cache(self, dirs, text_hash, encoding[1], text, outcome),
                      ErrNone, encoding, <<FALSE>>, <<<<text>>>>,
                      IF self.use_cache
                      THEN <<Write(self, dirs, text_hash, outcome)>> ELSE <<>>)

\* ToComputeIndices that gathers the texts to compute last text first
RECURSIVE ToComputeIndices_LastFirst(_, _, _, _)
ToComputeIndices_LastFirst(self, dirs, texts, i) ==
    IF i > Len(texts) THEN <<>>
    ELSE ToComputeIndices_LastFirst(self, dirs, texts, i + 1)
         \o (IF _load_from_cache(self, dirs, _compute_hash(self, texts[i])) = <<>>
             THEN <<i>> ELSE <<>>)

\* the indices of the texts that are not read from the cache
RECURSIVE ToComputeIndices(_, _, _, _)
ToComputeIndices(self, dirs, texts, i) ==
    IF i > Len(texts) THEN <<>>
    ELSE (IF _load_from_cache(self, dirs, _compute_hash(self, texts[i])) = <<>>
          THEN <<i>> ELSE <<>>)
         \o ToComputeIndices(self, dirs, texts, i + 1)

\* the loop of process_batch that stores the new embeddings from idx on: the
\* directories after it and the writes made
RECURSIVE SaveLoop(_, _, _, _, _, _, _)
SaveLoop(self, dirs, to_compute, new_embeddings, outcomes, idx, writes) ==
    IF idx > Len(to_compute) THEN [dirs |-> dirs, writes |-> writes]
    ELSE LET text_hash == _compute_hash(self, to_compute[idx])
         IN SaveLoop(self,
                     _save_to_cache(self, dirs, text_hash, new_embeddings[idx],
                                    to_compute[idx], outcomes[idx]),
                     to_compute, new_embeddings, outcomes, idx + 1,
                     IF self.use_cache
                     THEN Append(writes, Write(self, dirs, text_hash, outcomes[idx]))
                     ELSE writes)

\* process_batch that creates the file of the first text to compute before
\* it calls the embedder
process_batch_ReservesFile(self, dirs, texts, encodings, outcomes) ==
    IF texts = <<>> THEN Processed(dirs, ErrNone, <<>>, <<>>, <<>>, <<>>)
    ELSE LET to_compute_indices == ToComputeIndices(self, dirs, texts, 1)
             to_compute == [j \in 1..Len(to_compute_indices) |->
                               texts[to_compute_indices[j]]]
             from_cache == [i \in 1..Len(texts) |->
                               \A j \in 1..Len(to_compute_indices) :
                                   to_compute_indices[j] # i]
             cached_count == Cardinality({i \in 1..Len(texts) : from_cache[i]})
         IN IF to_compute = <<>>
            THEN [Processed(dirs, ErrNone,
                            [i \in 1..Len(texts) |->
                                _load_from_cache(self, dirs,
                                                 _compute_hash(self, texts[i]))[1]],
                            from_cache, <<>>, <<>>)
                  EXCEPT !.stats = Stats(cached_count, 0, Len(texts))]
            ELSE IF encodings = <<>>
                 THEN EncodeFailed(
                          _save_to_cache(self, dirs, _compute_hash(self, to_compute[1]),
                                         Corrupt, to_compute[1], "save_torn"),
                          <<to_compute>>)
            ELSE LET new_embeddings == [j \in 1..Len(to_compute_indices) |->
                                           encodings[to_compute_indices[j]]]
                     stored == SaveLoop(self, dirs, to_compute, new_embeddings,
                                        [j \in 1..Len(to_compute_indices) |->
                                            outcomes[to_compute_indices[j]]],
                                        1, <<>>)
                 IN [Processed(stored.dirs, ErrNone,
                               [i \in 1..Len(texts) |->
                                   IF from_cache[i]
                                   THEN _load_from_cache(
                                            self, dirs, _compute_hash(self, texts[i]))[1]
                                   ELSE encodings[i]],
                               from_cache, <<to_compute>>, stored.writes)
                     EXCEPT !.stats = Stats(cached_count, Len(to_compute), Len(texts))]

\* BatchEmbeddingProcessor.process_batch; encodings has a vector for each of
\* the texts and is <<>> when encode_batch raises, outcomes says how the save
\* for each text ends
process_batch(self, dirs, texts, encodings, outcomes) ==
    IF texts = <<>> THEN Processed(dirs, ErrNone, <<>>, <<>>, <<>>, <<>>)
    ELSE LET to_compute_indices == ToComputeIndices(self, dirs, texts, 1)
             to_compute == [j \in 1..Len(to_compute_indices) |->
                               texts[to_compute_indices[j]]]
             from_cache == [i \in 1..Len(texts) |->
                               \A j \in 1..Len(to_compute_indices) :
                                   to_compute_indices[j] # i]
             cached_count == Cardinality({i \in 1..Len(texts) : from_cache[i]})
         IN IF to_compute = <<>>
            THEN [Processed(dirs, ErrNone,
                            [i \in 1..Len(texts) |->
                                _load_from_cache(self, dirs,
                                                 _compute_hash(self, texts[i]))[1]],
                            from_cache, <<>>, <<>>)
                  EXCEPT !.stats = Stats(cached_count, 0, Len(texts))]
            ELSE IF encodings = <<>>
                 THEN EncodeFailed(dirs, <<to_compute>>)
            ELSE LET new_embeddings == [j \in 1..Len(to_compute_indices) |->
                                           encodings[to_compute_indices[j]]]
                     stored == SaveLoop(self, dirs, to_compute, new_embeddings,
                                        [j \in 1..Len(to_compute_indices) |->
                                            outcomes[to_compute_indices[j]]],
                                        1, <<>>)
                 IN [Processed(stored.dirs, ErrNone,
                               [i \in 1..Len(texts) |->
                                   IF from_cache[i]
                                   THEN _load_from_cache(
                                            self, dirs, _compute_hash(self, texts[i]))[1]
                                   ELSE encodings[i]],
                               from_cache, <<to_compute>>, stored.writes)
                     EXCEPT !.stats = Stats(cached_count, Len(to_compute), Len(texts))]

\* BatchEmbeddingProcessor.clear_cache: shutil.rmtree and the two mkdir
clear_cache(self, dirs) ==
    IF ~self.use_cache THEN dirs ELSE Dirs(EmptyMap, EmptyMap)

\* no processor has been called
NoEmbed ==
    [op |-> "none", self |-> [model_name |-> <<>>, use_cache |-> FALSE],
     texts |-> <<>>, err |-> ErrNone, vectors |-> <<>>, from_cache |-> <<>>,
     encoded |-> <<>>, raised |-> ErrNone, writes |-> <<>>, stats |-> NoStats]

(***************************************************************************)
(* process_single run by several callers at once.  Nothing in the class    *)
(* locks the cache, so the steps of the callers interleave at the file     *)
(* operations.  np.save opens the .npy file for writing, which creates or  *)
(* truncates it, writes the header of the array and then the data; the     *)
(* data reach the file in one write or, when the array is larger than the  *)
(* buffer of the writer, in two.  A file is the header and the two halves  *)
(* of the data as they are on disk, each writer writing at its own offset. *)
(***************************************************************************)
Callers == {"c1", "c2"}

\* the model of the processors of the callers
RaceModel == <<"m">>

\* bytes of a file beyond its end, and bytes of a hole left by a write beyond
\* the end
NoBytes == Vector(<<>>, <<>>, 0)

ZeroBytes == Vector(<<>>, <<>>, -1)

\* open(embedding_path, "wb"): the file is created empty or truncated
OpenForWrite == [header |-> "none", lo |-> NoBytes, hi |-> NoBytes]

WriteHeader(file) == [file EXCEPT !.header = "written"]

\* the writer's first half of the data, at the offset after the header
WriteLo(file, vector) ==
    [file EXCEPT !.header = IF @ = "none" THEN "zeros" ELSE @,
                 !.lo = vector]

\* the writer's second half of the data
WriteHi(file, vector) ==
    [file EXCEPT !.header = IF @ = "none" THEN "zeros" ELSE @,
                 !.lo = IF @ = NoBytes THEN ZeroBytes ELSE @,
                 !.hi = vector]

\* the array whose data are the two halves
Array(lo, hi) == [lo |-> lo, hi |-> hi]

\* the array of a vector of the embedder
Whole(vector) == Array(vector, vector)

\* np.load(embedding_path): the array of the file, <<>> when it raises on a
\* header that is not one or on data shorter than the header says
np_load(file) ==
    IF file.header # "written" THEN <<>>
    ELSE IF file.lo = NoBytes \/ file.hi = NoBytes THEN <<>>
    ELSE <<Array(file.lo, file.hi)>>

\* a caller outside process_single
NotCalling ==
    [pc |-> "idle", text |-> <<>>, embedding |-> NoBytes, from_cache |-> FALSE,
     result |-> <<>>]

(***************************************************************************)
(* SemanticRetriever (src/retrieval_pipeline/retrievers/                   *)
(* semantic_retriever.py): an embedder and a FaissVectorStore.  The        *)
(* embedder is a capability of the caller: what it answers to a call (a    *)
(* vector, a matrix, or an exception) is given with the call, <<>> for an  *)
(* exception and <<value>> for a value.  Each operation also yields the    *)
(* calls it made on the embedder and on the store, in order.               *)
(***************************************************************************)
ErrEmptyQuery == "ValueError: Query cannot be empty"

ErrEmptyQueries == "ValueError: Queries list cannot be empty"

ErrRetrieval == "RuntimeError: Retrieval failed"

ErrDocumentsLength == "ValueError: number of documents"

ErrAddDocuments == "RuntimeError: Failed to add documents"

\* a / b as the fraction it is
Frac(a, b) == [num |-> a, den |-> b]

\* r["score"] >= min_score on fractions of positive denominators
ScoreAtLeast(score, min_score) == score.num * min_score.den >= min_score.num * score.den

\* the outcome of a call of the retriever: the store after it, the error
\* raised with the exception it wraps, the value returned, and the calls made
Retrieved(s, err, cause, ret, calls) ==
    [s |-> s, err |-> err, ret |-> ret, cause |-> cause, calls |-> calls]

\* the results search returned with a score of at least min_score
AboveMinScore(results, min_score) ==
    SelectSeq(results, LAMBDA r : ScoreAtLeast(r.score, min_score))

\* a wrong filter: the results below min_score are the ones kept
retrieve_KeepsBelow(vector_store, query, k, hasMinScore, min_score, filters, encoded) ==
    IF query = <<>> \/ IsBlank(query)
    THEN Retrieved(vector_store, ErrEmptyQuery, ErrNone, <<>>, <<>>)
    ELSE IF encoded = <<>>
    THEN Retrieved(vector_store, ErrRetrieval, ErrEncode, <<>>, <<"encode">>)
    ELSE LET out == search(vector_store, encoded[1], k, filters)
         IN IF out.err # ErrNone
            THEN Retrieved(out.s, ErrRetrieval, out.err, <<>>, <<"encode", "search">>)
            ELSE Retrieved(out.s, ErrNone, ErrNone,
                           IF hasMinScore
                           THEN SelectSeq(out.ret, LAMBDA r : ~ScoreAtLeast(r.score, min_score))
                           ELSE out.ret,
                           <<"encode", "search">>)

\* the query is encoded before it is looked at
retrieve_EncodesFirst(vector_store, query, k, hasMinScore, min_score, filters, encoded) ==
    IF encoded = <<>>
    THEN Retrieved(vector_store, ErrRetrieval, ErrEncode, <<>>, <<"encode">>)
    ELSE IF query = <<>> \/ IsBlank(query)
    THEN Retrieved(vector_store, ErrEmptyQuery, ErrNone, <<>>, <<"encode">>)
    ELSE LET out == search(vector_store, encoded[1], k, filters)
         IN IF out.err # ErrNone
            THEN Retrieved(out.s, ErrRetrieval, out.err, <<>>, <<"encode", "search">>)
            ELSE Retrieved(out.s, ErrNone, ErrNone,
                           IF hasMinScore THEN AboveMinScore(out.ret, min_score)
                           ELSE out.ret,
                           <<"encode", "search">>)

\* SemanticRetriever.retrieve.  The results of FaissVectorStore.search hold
\* no "embedding" key, so popping it changes nothing.
retrieve(vector_store, query, k, hasMinScore, min_score, filters, encoded) ==
    IF query = <<>> \/ IsBlank(query)
    THEN Retrieved(vector_store, ErrEmptyQuery, ErrNone, <<>>, <<>>)
    ELSE IF encoded = <<>>
    THEN Retrieved(vector_store, ErrRetrieval, ErrEncode, <<>>, <<"encode">>)
    ELSE LET out == search(vector_store, encoded[1], k, filters)
         IN IF out.err # ErrNone
            THEN Retrieved(out.s, ErrRetrieval, out.err, <<>>, <<"encode", "search">>)
            ELSE Retrieved(out.s, ErrNone, ErrNone,
                           IF hasMinScore THEN AboveMinScore(out.ret, min_score)
                           ELSE out.ret,
                           <<"encode", "search">>)

\* the loop of batch_retrieve from query i on: the exceptions of retrieve
\* are caught and leave an empty list in the slot of the query
RECURSIVE BatchLoop_StopsAtFailure(_, _, _, _, _, _, _, _, _)
BatchLoop_StopsAtFailure(vector_store, queries, k, hasMinScore, min_score, filters, encodeds, i, acc) ==
    IF i > Len(queries) THEN acc
    ELSE LET out == retrieve(acc.s, queries[i], k, hasMinScore, min_score,
                             filters, encodeds[i])
         IN IF out.err # ErrNone
            THEN Retrieved(out.s, ErrNone, ErrNone, Append(acc.ret, <<>>),
                           acc.calls \o out.calls)
            ELSE BatchLoop_StopsAtFailure(vector_store, queries, k, hasMinScore, min_score,
                                          filters, encodeds, i + 1,
                                          Retrieved(out.s, ErrNone, ErrNone,
                                                    Append(acc.ret, out.ret),
                                                    acc.calls \o out.calls))

RECURSIVE BatchLoop(_, _, _, _, _, _, _, _, _)
BatchLoop(vector_store, queries, k, hasMinScore, min_score, filters, encodeds, i, acc) ==
    IF i > Len(queries) THEN acc
    ELSE LET out == retrieve(acc.s, queries[i], k, hasMinScore, min_score,
                             filters, encodeds[i])
         IN BatchLoop(vector_store, queries, k, hasMinScore, min_score, filters,
                      encodeds, i + 1,
                      Retrieved(out.s, ErrNone, ErrNone,
                                Append(acc.ret, IF out.err # ErrNone THEN <<>> ELSE out.ret),
                                acc.calls \o out.calls))

\* SemanticRetriever.batch_retrieve; encodeds[i] is what the embedder answers
\* when it is asked for queries[i]
batch_retrieve(vector_store, queries, k, hasMinScore, min_score, filters, encodeds) ==
    IF queries = <<>>
    THEN Retrieved(vector_store, ErrEmptyQueries, ErrNone, <<>>, <<>>)
    ELSE BatchLoop(vector_store, queries, k, hasMinScore, min_score, filters, encodeds,
                   1, Retrieved(vector_store, ErrNone, ErrNone, <<>>, <<>>))

\* the error of the store is raised as it is
add_documents_Reraises(vector_store, documents, ids, hasMetadatas, metadatas, encoded) ==
    IF Len(documents) # Len(ids)
    THEN Retrieved(vector_store, ErrDocumentsLength, ErrNone, <<>>, <<>>)
    ELSE IF hasMetadatas /\ Len(metadatas) # Len(documents)
    THEN Retrieved(vector_store, ErrMetadatasLength, ErrNone, <<>>, <<>>)
    ELSE IF encoded = <<>>
    THEN Retrieved(vector_store, ErrAddDocuments, ErrEncode, <<>>, <<"encode_batch">>)
    ELSE LET out == add(vector_store, encoded[1], ids, hasMetadatas, metadatas)
         IN Retrieved(out.s, out.err, out.err, <<>>, <<"encode_batch", "add">>)

\* SemanticRetriever.add_documents
add_documents(vector_store, documents, ids, hasMetadatas, metadatas, encoded) ==
    IF Len(documents) # Len(ids)
    THEN Retrieved(vector_store, ErrDocumentsLength, ErrNone, <<>>, <<>>)
    ELSE IF hasMetadatas /\ Len(metadatas) # Len(documents)
    THEN Retrieved(vector_store, ErrMetadatasLength, ErrNone, <<>>, <<>>)
    ELSE IF encoded = <<>>
    THEN Retrieved(vector_store, ErrAddDocuments, ErrEncode, <<>>, <<"encode_batch">>)
    ELSE LET out == add(vector_store, encoded[1], ids, hasMetadatas, metadatas)
         IN Retrieved(out.s, IF out.err # ErrNone THEN ErrAddDocuments ELSE ErrNone,
                      out.err, <<>>, <<"encode_batch", "add">>)

\* no retriever has been called
NoRetrieval ==
    [k |-> 0, err |-> ErrNone, ids |-> <<>>, filters |-> EmptyDict,
     results |-> <<>>, op |-> "none", min_score |-> Frac(0, 1), cause |-> ErrNone,
     calls |-> <<>>, hasMinScore |-> FALSE, queries |-> <<>>, encodeds |-> <<>>,
     all_results |-> <<>>]

(***************************************************************************)
(* AnswerGenerator (src/rag/answer_generator.py): a SemanticRetriever and  *)
(* an LLM.  The LLM is a capability of the caller: what it answers is      *)
(* given with the step that asks it.  Texts it produces are sequences of   *)
(* characters; the contents of documents are strings taken whole.  A       *)
(* request is followed through its steps: where it is (phase), the phases  *)
(* it went through (trace), what it holds, and how often it called the     *)
(* retriever (retrieve_calls), invoked the LLM (llm_calls), asked the      *)
(* LLM's stream for a fragment (requested) and was asked for one by its    *)
(* caller (pulls).  The latencies it measures are left out.                *)
(***************************************************************************)
\* _format_context on no results: "No relevant context found."
NoContext == [parts |-> <<>>, found |-> FALSE]

\* result.get("content") or result.get("text") or metadata.get("content")
\* or metadata.get("text") or "": the results of the retriever hold neither
\* key, so the content is looked up in the metadata
Content(result) ==
    LET metadata == result.metadata
    IN IF "content" \in DOMAIN metadata /\ metadata["content"] # ""
       THEN metadata["content"]
       ELSE IF "text" \in DOMAIN metadata /\ metadata["text"] # ""
       THEN metadata["text"]
       ELSE ""

\* f"{score:.2f}" as a number of hundredths, halves rounded to even
TwoDecimals(score) ==
    LET q == (score.num * 100) \div score.den
        r == (score.num * 100) % score.den
    IN IF 2 * r > score.den THEN q + 1
       ELSE IF 2 * r < score.den THEN q
       ELSE IF q % 2 = 0 THEN q ELSE q + 1

\* the parts "Title: ...", "Chapter: ...", "Page: ..." of a source header
MetaParts(self, metadata) ==
    IF self.include_metadata /\ DOMAIN metadata # {}
    THEN LET keys == SelectSeq(<<"title", "chapter", "page">>,
                               LAMBDA key : key \in DOMAIN metadata)
         IN [i \in 1..Len(keys) |-> <<keys[i], metadata[keys[i]]>>]
    ELSE <<>>

\* the entry "[Source idx] (meta_parts) [Relevance: score]\ncontent\n"
SourceEntry(self, idx, result) ==
    [idx |-> idx,
     content |-> Content(result),
     meta_parts |-> MetaParts(self, result.metadata),
     relevance |-> TwoDecimals(result.score)]

\* AnswerGenerator._format_context
_format_context(self, results) ==
    IF results = <<>> THEN NoContext
    ELSE [parts |-> [i \in 1..Len(results) |-> SourceEntry(self, i, results[i])],
          found |-> TRUE]

\* AnswerGenerator._build_prompt: the system prompt and the user message
\* with the context and the question
_build_prompt(query, context) ==
    <<[query |-> <<>>, context |-> NoContext, role |-> "system"],
      [query |-> query, context |-> context, role |-> "user"]>>

\* result.get("id") or result.get("doc_id"), kept when it is truthy
DocId(result) == IF result.id # "" THEN <<result.id>> ELSE <<>>

\* the sources are numbered from 0
_extract_sources_FromZero(results) ==
    [i \in 1..Len(results) |->
        [doc_id |-> DocId(results[i]),
         metadata |-> results[i].metadata,
         score |-> results[i].score,
         content |-> Content(results[i]),
         source_id |-> i - 1]]

\* AnswerGenerator._extract_sources
_extract_sources(results) ==
    [i \in 1..Len(results) |->
        [doc_id |-> DocId(results[i]),
         metadata |-> results[i].metadata,
         score |-> results[i].score,
         content |-> Content(results[i]),
         source_id |-> i]]

\* RAGResponse
RAGResponse(answer, sources, query, k, chunks) ==
    [chunks |-> chunks, query |-> query, answer |-> answer, sources |-> sources,
     top_k |-> k]

\* no request has been made
NoRequest ==
    [k |-> 0, err |-> ErrNone, results |-> <<>>,
     self |-> [include_metadata |-> FALSE], op |-> "none", encoded |-> <<>>,
     query |-> <<>>, context |-> NoContext, phase |-> "IDLE", trace |-> <<>>,
     messages |-> <<>>, prompted |-> <<>>, produced |-> <<>>, yielded |-> <<>>,
     full_answer |-> <<>>, chunk_count |-> 0, response |-> <<>>,
     retrieve_calls |-> 0, llm_calls |-> 0, requested |-> 0, pulls |-> 0]

\* the request moves to a phase
Enter(g, phase) == [g EXCEPT !.phase = phase, !.trace = Append(@, phase)]

\* the request ends in an exception
Fail(g, err) == [Enter(g, "FAILED") EXCEPT !.err = err]

\* generate(query, top_k) is called: k is set and the start is logged
generate(self, query, k) ==
    Enter([NoRequest EXCEPT !.op = "generate", !.self = self, !.query = query, !.k = k],
          "RETRIEVING")

\* stream(query, top_k) is called: the generator is made and nothing of its
\* body runs before the caller asks for the first fragment
stream(self, query, k) ==
    Enter([NoRequest EXCEPT !.op = "stream", !.self = self, !.query = query, !.k = k],
          "CREATED")

\* the caller's next() on the generator of stream: its body starts, or goes
\* on after the yield
Pull(g) ==
    Enter([g EXCEPT !.pulls = @ + 1],
          IF g.phase = "CREATED" THEN "RETRIEVING" ELSE "STREAMING")

\* step 1: results = self.retriever.retrieve(query=query, k=k, filters=filters)
Retrieving(g, vector_store, encoded) ==
    LET out == retrieve(vector_store, g.query, g.k, FALSE, Frac(0, 1), EmptyDict, encoded)
        called == [g EXCEPT !.retrieve_calls = @ + 1, !.encoded = encoded]
    IN IF out.err # ErrNone THEN Fail(called, out.err)
       ELSE Enter([called EXCEPT !.results = out.ret], "CONTEXT_FORMATTING")

\* the LLM is not asked when nothing was retrieved
Formatting_SkipsLLM(g) ==
    LET context == _format_context(g.self, g.results)
        formatted == [g EXCEPT !.context = context,
                               !.messages = _build_prompt(g.query, context)]
    IN IF g.results = <<>> /\ g.op = "generate"
       THEN Enter([formatted EXCEPT
                      !.response = <<RAGResponse(<<>>, <<>>, g.query, g.k, 0)>>],
                  "COMPLETE")
       ELSE Enter(formatted, "GENERATING")

\* steps 2 and 3: the context is formatted and the prompt is built
Formatting(g) ==
    LET context == _format_context(g.self, g.results)
    IN Enter([g EXCEPT !.context = context,
                       !.messages = _build_prompt(g.query, context)],
             "GENERATING")

\* steps 4 and 5 of generate: the LLM is invoked with the messages; when it
\* returns, the sources are extracted and the response is built
Generating(g, llm_response) ==
    LET invoked == [g EXCEPT !.llm_calls = @ + 1, !.prompted = g.messages]
    IN IF llm_response = <<>> THEN Fail(invoked, "LLMError")
       ELSE Enter([invoked EXCEPT
                      !.full_answer = llm_response[1],
                      !.response = <<RAGResponse(llm_response[1],
                                                 _extract_sources(g.results),
                                                 g.query, g.k, 0)>>],
                  "COMPLETE")

\* step 4 of stream: self.llm.stream(messages, **llm_params) is invoked and
\* the loop asks it for its first fragment
Streaming(g) ==
    Enter([g EXCEPT !.llm_calls = @ + 1, !.prompted = g.messages], "STREAMING")

\* the fragments are collected and handed over when the LLM has finished
Fragment_Buffers(g, chunk) ==
    LET asked == [g EXCEPT !.requested = @ + 1]
    IN IF chunk.kind = "raise" THEN Fail(asked, "LLMError")
       ELSE IF chunk.kind = "chunk"
       THEN Enter([asked EXCEPT !.produced = Append(@, chunk.content),
                                !.full_answer = @ \o chunk.content,
                                !.chunk_count = @ + 1],
                  "STREAMING")
       ELSE Enter([asked EXCEPT
                      !.yielded = g.produced,
                      !.response = <<RAGResponse(g.full_answer,
                                                 _extract_sources(g.results),
                                                 g.query, g.k, g.chunk_count)>>],
                  "COMPLETE")

\* one turn of "for chunk in self.llm.stream(...)": the LLM's stream is asked
\* for a fragment; a fragment is added to full_answer and yielded, and the
\* generator waits there for the caller; at the end of the stream the
\* sources are extracted and the final response is returned
Fragment(g, chunk) ==
    LET asked == [g EXCEPT !.requested = @ + 1]
    IN IF chunk.kind = "raise" THEN Fail(asked, "LLMError")
       ELSE IF chunk.kind = "chunk"
       THEN Enter([asked EXCEPT !.produced = Append(@, chunk.content),
                                !.full_answer = @ \o chunk.content,
                                !.chunk_count = @ + 1,
                                !.yielded = Append(@, chunk.content)],
                  "YIELDED")
       ELSE Enter([asked EXCEPT
                      !.response = <<RAGResponse(g.full_answer,
                                                 _extract_sources(g.results),
                                                 g.query, g.k, g.chunk_count)>>],
                  "COMPLETE")

(***************************************************************************)
(* The state: the fields of the live FaissVectorStore, the persisted path, *)
(* the last call with its outcome, and two history variables: the store   *)
(* as it was when persist was last called, and the <<id, vector>> pairs    *)
(* of the last successful add while no other write has followed it.        *)
(* For the callers that share the store from several threads: where each   *)
(* thread is in its call (pc), the arguments and local variables of the    *)
(* call (frame), the number of calls made (ncalls), and two history        *)
(* variables: the stores that the calls made *)
(* so far yield when taken one at a time in an order that agrees with      *)
(* their overlaps (lin), and the results that the search in flight has on  *)
(* one of those stores (legit).                                            *)
(***************************************************************************)
VARIABLES dimension, index, id_to_metadata, id_to_index, index_to_id,
          disk, last, saved, inserted

VARIABLES pc, frame, ncalls, lin, legit

\* The text splitter: its configuration (splitter), the last call of
\* split_text or split_with_metadata with its outcome (split), and the
\* number of values uuid4 has generated (issued).
VARIABLES splitter, split, issued

\* The embedding cache: the files of cache_dir/embeddings and of
\* cache_dir/metadata by the hash in their name (embeddings_dir,
\* metadata_dir), and the last call of a BatchEmbeddingProcessor on that
\* directory with its outcome (embed).
VARIABLES embeddings_dir, metadata_dir, embed

\* Callers that run process_single at the same time on the one cache
\* directory: where each is in its call and what it holds (caller), and
\* for each key the caller whose np.save was completed last (last_saved).
VARIABLES caller, last_saved

\* The last call of a SemanticRetriever on the store, with what the embedder
\* answered and the outcome (retr).
VARIABLES retr

\* The request an AnswerGenerator is serving, or served last (rag).
VARIABLES rag

vars == <<dimension, index, id_to_metadata, id_to_index, index_to_id,
          disk, last, saved, inserted, pc, frame, ncalls, lin, legit,
          splitter, split, issued, embeddings_dir, metadata_dir, embed,
          caller, last_saved, retr, rag>>

chunking == <<splitter, split, issued>>

pipeline == <<splitter, split, issued, embeddings_dir, metadata_dir, embed,
              caller, last_saved, retr, rag>>

racing == <<caller, last_saved>>

asking == <<retr, rag>>

\* the processors are constructed on an empty cache directory
InitCache ==
    /\ embeddings_dir = EmptyMap
    /\ metadata_dir = EmptyMap
    /\ embed = NoEmbed
    /\ caller = [c \in Callers |-> NotCalling]
    /\ last_saved = EmptyMap
    /\ retr = NoRetrieval
    /\ rag = NoRequest

conc == <<pc, frame, ncalls, lin, legit>>

Writers == {"w1", "w2"}

Reader == "r"

Threads == Writers \cup {Reader}

\* the arguments and locals of a call, as they are before the call is made
IdleFrame ==
    [op |-> "none", del_ids |-> <<>>,
     embeddings |-> <<>>, ids |-> <<>>, metadatas |-> <<>>,
     existing |-> 0, start_index |-> 0, i |-> 0,
     q |-> <<>>, k |-> 0, filters |-> EmptyDict,
     search_k |-> 0, hits |-> <<>>, results |-> <<>>, err |-> ErrNone]

Self ==
    [dimension |-> dimension,
     index |-> index,
     id_to_metadata |-> id_to_metadata,
     id_to_index |-> id_to_index,
     index_to_id |-> index_to_id]

SelfNext ==
    [dimension |-> dimension',
     index |-> index',
     id_to_metadata |-> id_to_metadata',
     id_to_index |-> id_to_index',
     index_to_id |-> index_to_id']

Becomes(s) ==
    /\ dimension' = s.dimension
    /\ index' = s.index
    /\ id_to_metadata' = s.id_to_metadata
    /\ id_to_index' = s.id_to_index
    /\ index_to_id' = s.index_to_id

\* what the arguments of an add were like: of the store's dimension, with
\* as many ids and metadatas as rows, naming an id that was stored
WellFormed == [dimension |-> TRUE, ids |-> TRUE, metadatas |-> TRUE, stored |-> FALSE]

Given(s, embeddings, ids, hasMetadatas, metadatas) ==
    [dimension |-> EmbDim(embeddings) = s.dimension,
     ids |-> Len(ids) = Len(embeddings),
     metadatas |-> hasMetadatas => Len(metadatas) = Len(embeddings),
     stored |-> \E i \in 1..Len(ids) : DictHas(s.id_to_index, ids[i])]

\* the record of a call: the error raised, the count returned by delete,
\* for add what its arguments were like, and for search the arguments and
\* the results returned
Returned(op) ==
    [op |-> op, err |-> ErrNone, count |-> 0, given |-> WellFormed,
     q |-> <<>>, k |-> 0, filters |-> EmptyDict, results |-> <<>>]

Raised(op, err) == [Returned(op) EXCEPT !.err = err]

\* the <<id, vector>> pairs of a successful add
Pairs(ids, embeddings) == [i \in 1..Len(ids) |-> <<ids[i], embeddings[i]>>]

InitStore ==
    /\ dimension \in Dims
    /\ index = NewStore(dimension).index
    /\ id_to_metadata = NewStore(dimension).id_to_metadata
    /\ id_to_index = NewStore(dimension).id_to_index
    /\ index_to_id = NewStore(dimension).index_to_id
    /\ disk = NoDisk
    /\ last = Returned("init")
    /\ saved = <<>>
    /\ inserted = <<>>
    /\ pc = [t \in Threads |-> "idle"]
    /\ frame = [t \in Threads |-> IdleFrame]
    /\ ncalls = 0
    /\ lin = {[s |-> NewStore(dimension), done |-> {}]}
    /\ legit = {}

Init ==
    /\ InitStore
    /\ splitter = DefaultSplitter
    /\ split = NoSplit
    /\ issued = 0
    /\ InitCache

AddCall(embeddings, ids, hasMetadatas, metadatas) ==
    LET out == add(Self, embeddings, ids, hasMetadatas, metadatas)
    IN /\ Becomes(out.s)
       /\ last' = [Raised("add", out.err) EXCEPT
                      !.given = Given(Self, embeddings, ids, hasMetadatas, metadatas)]
       /\ inserted' = IF out.err = ErrNone THEN Pairs(ids, embeddings) ELSE inserted
       /\ UNCHANGED <<disk, saved, conc, pipeline>>

\* the arguments of add the callers draw from: n rows of one dimension with
\* n ids and either no metadatas or the same metadata for each row, and the
\* same with one id or one metadata too many
AddInputs ==
    UNION {
        {[embeddings |-> e, ids |-> i, hasMetadatas |-> FALSE, metadatas |-> <<>>] :
            e \in {x \in [1..n -> Vecs] : \A j \in 1..n : Len(x[j]) = Len(x[1])},
            i \in [1..n -> Ids]}
        \cup
        {[embeddings |-> e, ids |-> i, hasMetadatas |-> TRUE,
          metadatas |-> [j \in 1..n |-> m]] :
            e \in {x \in [1..n -> Vecs] : \A j \in 1..n : Len(x[j]) = Len(x[1])},
            i \in [1..n -> Ids], m \in Metas}
        \cup
        {[embeddings |-> [j \in 1..n |-> v], ids |-> [j \in 1..(n + 1) |-> i],
          hasMetadatas |-> FALSE, metadatas |-> <<>>] : v \in Vecs, i \in Ids}
        \cup
        {[embeddings |-> [j \in 1..n |-> v], ids |-> [j \in 1..n |-> i],
          hasMetadatas |-> TRUE, metadatas |-> [j \in 1..(n + 1) |-> EmptyDict]] :
            v \in Vecs, i \in Ids}
        : n \in 1..MaxBatch}

Add ==
    \E in \in AddInputs :
        /\ ntotal(index) + Len(in.embeddings) <= MaxSize
        /\ AddCall(in.embeddings, in.ids, in.hasMetadatas, in.metadatas)

SearchCall(q, k, filters) ==
    LET out == search(Self, q, k, filters)
    IN /\ Becomes(out.s)
       /\ last' = [Raised("search", out.err) EXCEPT
                      !.q = q, !.k = k, !.filters = filters, !.results = out.ret]
       /\ UNCHANGED <<disk, saved, inserted, conc, pipeline>>

Search ==
    \E q \in Vecs, k \in 1..MaxK, filters \in Filters : SearchCall(q, k, filters)

DeleteCall(ids) ==
    LET out == delete(Self, ids)
    IN /\ Becomes(out.s)
       /\ last' = [Raised("delete", out.err) EXCEPT !.count = out.ret]
       /\ inserted' = <<>>
       /\ UNCHANGED <<disk, saved, conc, pipeline>>

Delete ==
    \E ids \in SeqsUpTo(Ids, MaxBatch) : DeleteCall(ids)

Clear ==
    /\ Becomes(clear(Self))
    /\ last' = Returned("clear")
    /\ inserted' = <<>>
    /\ UNCHANGED <<disk, saved, conc, pipeline>>

\* the calls on one store held in memory
Next == Add \/ Search \/ Delete \/ Clear

Spec == Init /\ [][Next]_vars

(***************************************************************************)
(* The store across persist and load: stores are constructed, filled one   *)
(* vector at a time, persisted, and loaded into.                           *)
(***************************************************************************)
\* a new store is constructed and takes the place of the live one
New ==
    \E d \in Dims :
        /\ Becomes(NewStore(d))
        /\ last' = Returned("init")
        /\ inserted' = <<>>
        /\ UNCHANGED <<disk, saved, conc, pipeline>>

Persist ==
    /\ disk' = persist(Self)
    /\ saved' = <<Self>>
    /\ last' = Returned("persist")
    /\ UNCHANGED <<dimension, index, id_to_metadata, id_to_index, index_to_id,
                   inserted, conc, pipeline>>

Load ==
    LET out == load(Self, disk)
    IN /\ Becomes(out.s)
       /\ last' = Raised("load", out.err)
       /\ inserted' = <<>>
       /\ UNCHANGED <<disk, saved, conc, pipeline>>

AddOne ==
    \E v \in DiskVecs, id \in Ids, metadata \in DiskMetas :
        /\ ntotal(index) < DiskSize
        /\ AddCall(<<v>>, <<id>>, TRUE, <<metadata>>)

DeleteOne ==
    \E id \in Ids : DeleteCall(<<id>>)

SearchOne ==
    \E q \in DiskVecs, filters \in Metas : SearchCall(q, 1, filters)

NextDisk == New \/ AddOne \/ DeleteOne \/ SearchOne \/ Persist \/ Load

SpecDisk == Init /\ [][NextDisk]_vars

(***************************************************************************)
(* A store of dimension 1 that is filled with up to BulkSize documents,    *)
(* one per add, each under the next id str(n), and searched for <<0>>      *)
(* with a filter on the category.                                          *)
(***************************************************************************)
BulkQuery == <<0>>

\* the documents added: those at <<0>> have category "B", those at <<1>> "A"
BulkDocs ==
    {[embedding |-> <<0>>, metadata |-> [x \in Keys |-> "B"]],
     [embedding |-> <<1>>, metadata |-> [x \in Keys |-> "A"]]}

BulkFilters == {[x \in Keys |-> v] : v \in Values}

InitBulk == Init /\ dimension = 1

AddDoc ==
    \E doc \in BulkDocs :
        /\ ntotal(index) < BulkSize
        /\ AddCall(<<doc.embedding>>, <<StrOfInt(ntotal(index))>>,
                   TRUE, <<doc.metadata>>)

SearchFiltered ==
    \E k \in 1..MaxK, filters \in BulkFilters : SearchCall(BulkQuery, k, filters)

NextBulk == AddDoc \/ SearchFiltered

SpecBulk == InitBulk /\ [][NextBulk]_vars

(***************************************************************************)
(* One store of dimension 1 shared by three threads: two that call add and *)
(* delete and one that calls search.  The methods take no lock, so the     *)
(* threads interleave between the statements of a method.  A step is a     *)
(* block of statements of one method; each call into faiss and each pass   *)
(* of a loop body is taken as one step.                                    *)
(***************************************************************************)
\* the documents the writers add: id, vector and metadata
ConcDocs ==
    {[id |-> "a", embedding |-> <<0>>, metadata |-> [x \in Keys |-> "A"]],
     [id |-> "b", embedding |-> <<1>>, metadata |-> [x \in Keys |-> "A"]]}

ConcQuery == <<0>>

\* a thread that is free makes the next call while calls are left; the two
\* writers are alike, so of two free writers it is w1 that calls
Free(t) ==
    /\ pc[t] = "idle"
    /\ ncalls < MaxCalls
    /\ t = "w2" => pc["w1"] # "idle"

InitConc == Init /\ dimension = 1

\* the writers whose call has begun and has not returned
InFlight == {t \in Writers : pc[t] # "idle"}

Searching == pc[Reader] \notin {"idle", "done"}

\* the store after the call of frame f is made on store s with no other call
\* running
Apply(s, f) ==
    IF f.op = "add" THEN add(s, f.embeddings, f.ids, TRUE, f.metadatas).s
    ELSE delete(s, f.del_ids).s

\* the serial stores L with every call in flight also taken as made, in each
\* order, n calls deep
RECURSIVE Close(_, _, _, _)
Close(L, fr, fl, n) ==
    IF n = 0 THEN L
    ELSE Close(L \cup {[s |-> Apply(x[1].s, fr[x[2]]), done |-> x[1].done \cup {x[2]}] :
                          x \in {y \in L \X fl : y[2] \notin y[1].done}},
               fr, fl, n - 1)

\* the serial stores once the call of writer t has returned
Responded(L, t) == {[c EXCEPT !.done = @ \ {t}] : c \in {x \in L : t \in x.done}}

\* the results of search(q, k, filters) on the serial stores
SerialResults(L, q, k, filters) == {search(c.s, q, k, filters).ret : c \in L}

\* thread t begins a call with frame f at the label given
Invoke(t, label, f) ==
    LET fr == [frame EXCEPT ![t] = f]
        L == Close(lin, fr, InFlight \cup {t}, Cardinality(Writers))
    IN /\ pc' = [pc EXCEPT ![t] = label]
       /\ frame' = fr
       /\ ncalls' = ncalls + 1
       /\ lin' = L
       /\ legit' = IF Searching
                   THEN legit \cup SerialResults(L, frame[Reader].q, frame[Reader].k,
                                                 frame[Reader].filters)
                   ELSE legit
       /\ UNCHANGED <<dimension, index, id_to_metadata, id_to_index, index_to_id,
                      disk, last, saved, inserted, pipeline>>

\* thread t runs a block of statements that leaves the store as s and the
\* locals as f, and goes on at the label given.  At "done" the call has
\* returned or raised: a writer is then free for its next call, the reader
\* holds the outcome of its search until it takes it
Step(t, label, f, s) ==
    /\ pc' = [pc EXCEPT ![t] = IF label = "done" /\ t \in Writers THEN "idle" ELSE label]
    /\ frame' = [frame EXCEPT ![t] = IF label = "done" /\ t \in Writers
                                      THEN IdleFrame ELSE f]
    /\ Becomes(s)
    /\ lin' = IF label = "done" /\ t \in Writers THEN Responded(lin, t) ELSE lin
    /\ UNCHANGED <<ncalls, legit, disk, last, saved, inserted, pipeline>>

CallAdd ==
    \E t \in Writers, doc \in ConcDocs :
        /\ Free(t)
        /\ ntotal(index) < ConcSize
        /\ Invoke(t, "add_check",
                  [IdleFrame EXCEPT !.op = "add", !.embeddings = <<doc.embedding>>,
                                    !.ids = <<doc.id>>, !.metadatas = <<doc.metadata>>])

CallDelete ==
    \E t \in Writers, id \in Ids :
        /\ Free(t)
        /\ Invoke(t, "delete_select",
                  [IdleFrame EXCEPT !.op = "delete", !.del_ids = <<id>>])

CallSearch ==
    \E k \in 1..MaxK :
        /\ Free(Reader)
        /\ ncalls' = ncalls + 1
        /\ pc' = [pc EXCEPT ![Reader] = "search_check"]
        /\ frame' = [frame EXCEPT ![Reader] =
                        [IdleFrame EXCEPT !.op = "search", !.q = ConcQuery, !.k = k]]
        /\ legit' = SerialResults(lin, ConcQuery, k, EmptyDict)
        /\ UNCHANGED <<dimension, index, id_to_metadata, id_to_index, index_to_id,
                       disk, last, saved, inserted, lin, pipeline>>

\* the error the validation of add raises on store s
AddValidation(s, embeddings, ids, metadatas) ==
    IF EmbDim(embeddings) # s.dimension THEN ErrDimension
    ELSE IF Len(ids) # Len(embeddings) THEN ErrIdsLength
    ELSE IF Len(metadatas) # Len(embeddings) THEN ErrMetadatasLength
    ELSE IF DuplicateIds(s, ids) # {} THEN ErrDuplicate
    ELSE ErrNone

\* add: the validation of the arguments
AddCheck ==
    \E t \in Writers :
        /\ pc[t] = "add_check"
        /\ LET f == frame[t]
               err == AddValidation(Self, f.embeddings, f.ids, f.metadatas)
           IN IF err # ErrNone
              THEN Step(t, "done", [f EXCEPT !.err = err], Self)
              ELSE Step(t, "add_start", f, Self)

\* add: start_index = self.index.ntotal
AddStart ==
    \E t \in Writers :
        /\ pc[t] = "add_start"
        /\ Step(t, "add_append", [frame[t] EXCEPT !.start_index = ntotal(index)], Self)

\* add: self.index.add(embeddings)
AddAppend ==
    \E t \in Writers :
        /\ pc[t] = "add_append"
        /\ Step(t, "add_record", [frame[t] EXCEPT !.i = 1],
                [Self EXCEPT !.index = IndexAdd(index, frame[t].embeddings)])

\* add: one pass of the loop that records the maps of ids[i]; after the
\* last pass add returns, and so does the delete that called it
AddRecord ==
    \E t \in Writers :
        /\ pc[t] = "add_record"
        /\ LET f == frame[t]
               doc_id == f.ids[f.i]
               faiss_index == f.start_index + (f.i - 1)
               s == [Self EXCEPT
                        !.id_to_index = DictPut(id_to_index, doc_id, faiss_index),
                        !.index_to_id = MapPut(index_to_id, faiss_index, doc_id),
                        !.id_to_metadata = MapPut(id_to_metadata, doc_id, f.metadatas[f.i])]
           IN IF f.i = Len(f.ids)
              THEN Step(t, "done", f, s)
              ELSE Step(t, "add_record", [f EXCEPT !.i = f.i + 1], s)

\* delete: existing_ids and remaining_ids
DeleteSelect ==
    \E t \in Writers :
        /\ pc[t] = "delete_select"
        /\ LET f == frame[t]
               existing_ids == SelectSeq(f.del_ids,
                                         LAMBDA doc_id : DictHas(id_to_index, doc_id))
               remaining_ids == SelectSeq(DictKeys(id_to_index),
                                          LAMBDA doc_id : doc_id \notin Range(existing_ids))
               g == [f EXCEPT !.existing = Len(existing_ids), !.ids = remaining_ids]
           IN IF existing_ids = <<>> THEN Step(t, "done", g, Self)
              ELSE IF remaining_ids = <<>> THEN Step(t, "delete_clear", g, Self)
              ELSE Step(t, "delete_gather", g, Self)

\* delete: remaining_indices, remaining_embeddings and remaining_metadatas;
\* an id that is no longer in the maps raises KeyError
DeleteGather ==
    \E t \in Writers :
        /\ pc[t] = "delete_gather"
        /\ LET f == frame[t]
               n == Len(f.ids)
           IN IF \E j \in 1..n : ~DictHas(id_to_index, f.ids[j])
              THEN Step(t, "done", [f EXCEPT !.err = ErrKey], Self)
              ELSE IF \E j \in 1..n :
                          ~IndexReconstructOk(index, DictGet(id_to_index, f.ids[j]))
                   THEN Step(t, "done", [f EXCEPT !.err = ErrReconstruct], Self)
              ELSE IF \E j \in 1..n : f.ids[j] \notin DOMAIN id_to_metadata
                   THEN Step(t, "done", [f EXCEPT !.err = ErrKey], Self)
              ELSE Step(t, "delete_clear",
                        [f EXCEPT
                           !.embeddings =
                               [j \in 1..n |->
                                   IndexReconstruct(index, DictGet(id_to_index, f.ids[j]))],
                           !.metadatas = [j \in 1..n |-> id_to_metadata[f.ids[j]]]],
                        Self)

\* delete: self.clear(), after which delete returns when nothing remains and
\* calls add otherwise
DeleteClear ==
    \E t \in Writers :
        /\ pc[t] = "delete_clear"
        /\ IF frame[t].ids = <<>>
           THEN Step(t, "done", frame[t], clear(Self))
           ELSE Step(t, "add_check", frame[t], clear(Self))

\* search: the check of the dimension and of the empty index, and search_k
SearchCheck ==
    /\ pc[Reader] = "search_check"
    /\ LET f == frame[Reader]
       IN IF Len(f.q) # dimension
          THEN Step(Reader, "done", [f EXCEPT !.err = ErrDimension], Self)
          ELSE IF ntotal(index) = 0 THEN Step(Reader, "done", f, Self)
          ELSE Step(Reader, "search_index",
                    [f EXCEPT !.search_k = SearchK(Self, f.k, f.filters)], Self)

\* search: self.index.search(query_embedding, search_k)
SearchIndex ==
    /\ pc[Reader] = "search_index"
    /\ LET f == frame[Reader]
       IN Step(Reader, "search_collect",
               [f EXCEPT !.hits = IndexSearch(index, f.q, f.search_k)], Self)

\* search: the loop over the hits
SearchCollect ==
    /\ pc[Reader] = "search_collect"
    /\ LET f == frame[Reader]
       IN Step(Reader, "done",
               [f EXCEPT !.results = SearchLoop(Self, f.k, f.filters, f.hits, 1, <<>>)],
               Self)

\* the reader takes the outcome of its search and is free for the next call
Return ==
    /\ pc[Reader] = "done"
    /\ pc' = [pc EXCEPT ![Reader] = "idle"]
    /\ frame' = [frame EXCEPT ![Reader] = IdleFrame]
    /\ legit' = {}
    /\ UNCHANGED <<dimension, index, id_to_metadata, id_to_index, index_to_id,
                   disk, last, saved, inserted, ncalls, lin, pipeline>>

NextConc ==
    \/ CallAdd \/ CallDelete \/ CallSearch
    \/ AddCheck \/ AddStart \/ AddAppend \/ AddRecord
    \/ DeleteSelect \/ DeleteGather \/ DeleteClear
    \/ SearchCheck \/ SearchIndex \/ SearchCollect
    \/ Return

SpecConc == InitConc /\ [][NextConc]_vars

(***************************************************************************)
(* A splitter of some accepted configuration that is called with texts.    *)
(***************************************************************************)
\* the state of the vector store and of its callers, which the calls of the
\* splitter leave alone
storeSide ==
    <<dimension, index, id_to_metadata, id_to_index, index_to_id,
      disk, last, saved, inserted, pc, frame, ncalls, lin, legit>>

\* the metadata the callers of split_with_metadata pass
SplitMetas ==
    {EmptyDict, [key \in {"source"} |-> 7], [key \in {"source", "chunk_index"} |-> 7]}

\* the splitter is constructed and a caller holds a text to split
InitChunk ==
    /\ InitStore
    /\ dimension = 1
    /\ splitter \in Splitters
    /\ split \in {[NoSplit EXCEPT !.text = text] : text \in TextsUpTo(MaxText)}
    /\ issued = 0
    /\ InitCache

SplitText ==
    /\ split.op = "none"
    /\ split' = [split EXCEPT !.op = "split_text",
                              !.splits = Segments(splitter, split.text),
                              !.chunks = split_text(splitter, split.text)]
    /\ UNCHANGED <<splitter, issued, storeSide, asking, embeddings_dir, metadata_dir, embed, racing>>

NextChunk == SplitText

SpecChunk == InitChunk /\ [][NextChunk]_vars

\* the splitter is constructed and a caller holds a text and its metadata
InitChunkMeta ==
    /\ InitStore
    /\ dimension = 1
    /\ splitter \in Splitters
    /\ split \in {[NoSplit EXCEPT !.text = text, !.metadata = metadata] :
                     text \in TextsUpTo(MetaText), metadata \in SplitMetas}
    /\ issued = 0
    /\ InitCache

\* the caller splits its text, any number of times
SplitWithMetadata ==
    LET records == split_with_metadata(splitter, split.text, split.metadata, issued)
    IN /\ issued + Len(records) <= MaxUuids
       /\ split' = [split EXCEPT !.op = "split_with_metadata",
                                 !.chunks = split_text(splitter, split.text),
                                 !.records = records]
       /\ issued' = issued + Len(records)
       /\ UNCHANGED <<splitter, storeSide, asking, embeddings_dir, metadata_dir, embed, racing>>

NextChunkMeta == SplitWithMetadata

SpecChunkMeta == InitChunkMeta /\ [][NextChunkMeta]_vars

(***************************************************************************)
(* SpecCache: one caller at a time calls process_single and clear_cache on *)
(* processors that share the cache directory.  The embedder and the file   *)
(* system are the environment: the embedder returns the vector of a run or *)
(* raises, a save ends in one of SaveOutcomes.                             *)
(***************************************************************************)
CacheDirs == Dirs(embeddings_dir, metadata_dir)

\* the call is recorded and the directories are what it left
Called(op, self, texts, result) ==
    /\ embed' = [op |-> op, self |-> self, texts |-> texts, err |-> result.err,
                 vectors |-> result.vectors, from_cache |-> result.from_cache,
                 encoded |-> result.encoded, raised |-> result.raised,
                 writes |-> result.writes, stats |-> result.stats]
    /\ embeddings_dir' = result.dirs.embeddings
    /\ metadata_dir' = result.dirs.metadata
    /\ UNCHANGED <<storeSide, asking, chunking, racing>>

ProcessSingleBy(processors) ==
    \E self \in processors, text \in CacheTexts, outcome \in SaveOutcomes :
        \E encoding \in {<<>>} \cup {<<v>> : v \in Encodings(self.model_name, text)} :
            Called("process_single", self, <<text>>,
                   process_single(self, CacheDirs, text, encoding, outcome))

ClearCacheBy(processors) ==
    \E self \in processors :
        Called("clear_cache", self, <<>>,
               Processed(clear_cache(self, CacheDirs), ErrNone, <<>>, <<>>, <<>>, <<>>))

ProcessSingle == ProcessSingleBy(Processors)

ClearCache == ClearCacheBy(Processors)

InitEmbed ==
    /\ InitStore
    /\ dimension = 1
    /\ splitter = DefaultSplitter
    /\ split = NoSplit
    /\ issued = 0
    /\ InitCache

NextCache == ProcessSingle \/ ClearCache

SpecCache == InitEmbed /\ [][NextCache]_vars

(***************************************************************************)
(* SpecBatch: one caller at a time calls process_batch, process_single and *)
(* clear_cache on the processors of one model.  The saves of a batch end   *)
(* as the store lets them: it works up to some save of the call and fails  *)
(* in one way from that save on.                                           *)
(***************************************************************************)
MaxTexts == 2

BatchTexts == SeqsUpTo(CacheTexts, MaxTexts)

BatchProcessors == {Processor(<<"m">>, use_cache) : use_cache \in BOOLEAN}

\* what embedder.encode_batch(texts) may return: the vectors of one run
BatchEncodings(model_name, texts) ==
    {[i \in 1..Len(texts) |-> Vector(model_name, texts[i], run)] : run \in Runs}

\* how the saves for n texts may end
BatchOutcomes(n) ==
    {[i \in 1..n |-> IF i < first THEN "saved" ELSE outcome] :
        first \in 1..(n + 1), outcome \in SaveOutcomes}

ProcessBatch ==
    \E self \in BatchProcessors, texts \in BatchTexts :
        \E encodings \in {<<>>} \cup BatchEncodings(self.model_name, texts),
           outcomes \in BatchOutcomes(Len(texts)) :
            Called("process_batch", self, texts,
                   process_batch(self, CacheDirs, texts, encodings, outcomes))

ProcessOne == ProcessSingleBy(BatchProcessors)

ClearAll == ClearCacheBy(BatchProcessors)

NextBatch == ProcessBatch \/ ProcessOne \/ ClearAll

SpecBatch == InitEmbed /\ [][NextBatch]_vars

(***************************************************************************)
(* SpecRace: each caller calls process_single once on a processor of the   *)
(* one model, with caching, and the store takes every write.  One action   *)
(* per file operation of process_single, _load_from_cache and              *)
(* _save_to_cache.                                                         *)
(***************************************************************************)
At(c, pc_) == caller[c].pc = pc_

Goto(c, pc_) == caller' = [caller EXCEPT ![c].pc = pc_]

\* the key of the call of c
KeyOf(c) == _compute_hash(Processor(RaceModel, TRUE), caller[c].text)

\* process_single(text) is called: the hash is computed
CallSingle(c) ==
    /\ At(c, "idle")
    /\ \E text \in CacheTexts :
           caller' = [caller EXCEPT ![c].pc = "exists", ![c].text = text]
    /\ UNCHANGED <<storeSide, asking, chunking, embeddings_dir, metadata_dir, embed, last_saved>>

\* _load_from_cache: embedding_path.exists()
Exists(c) ==
    /\ At(c, "exists")
    /\ Goto(c, IF KeyOf(c) \in DOMAIN embeddings_dir THEN "load" ELSE "encode")
    /\ UNCHANGED <<storeSide, asking, chunking, embeddings_dir, metadata_dir, embed, last_saved>>

\* _load_from_cache: np.load, and the return of process_single on a hit
LoadFile(c) ==
    /\ At(c, "load")
    /\ LET cached_embedding == np_load(embeddings_dir[KeyOf(c)])
       IN IF cached_embedding = <<>>
          THEN Goto(c, "encode")
          ELSE caller' = [caller EXCEPT ![c].pc = "done",
                                        ![c].from_cache = TRUE,
                                        ![c].result = cached_embedding]
    /\ UNCHANGED <<storeSide, asking, chunking, embeddings_dir, metadata_dir, embed, last_saved>>

\* embedding = self.embedder.encode(text)
Encode(c) ==
    /\ At(c, "encode")
    /\ \E embedding \in Encodings(RaceModel, caller[c].text) :
           caller' = [caller EXCEPT ![c].pc = "open", ![c].embedding = embedding]
    /\ UNCHANGED <<storeSide, asking, chunking, embeddings_dir, metadata_dir, embed, last_saved>>

\* np.save opens the file
SaveOpen(c) ==
    /\ At(c, "open")
    /\ embeddings_dir' = MapPut(embeddings_dir, KeyOf(c), OpenForWrite)
    /\ Goto(c, "header")
    /\ UNCHANGED <<storeSide, asking, chunking, metadata_dir, embed, last_saved>>

\* np.save writes the header
SaveHeader(c) ==
    /\ At(c, "header")
    /\ embeddings_dir' = MapPut(embeddings_dir, KeyOf(c),
                                WriteHeader(embeddings_dir[KeyOf(c)]))
    /\ Goto(c, "data")
    /\ UNCHANGED <<storeSide, asking, chunking, metadata_dir, embed, last_saved>>

\* np.save writes the data in one write and closes the file
SaveData(c) ==
    /\ At(c, "data")
    /\ embeddings_dir' =
           MapPut(embeddings_dir, KeyOf(c),
                  WriteHi(WriteLo(embeddings_dir[KeyOf(c)], caller[c].embedding),
                          caller[c].embedding))
    /\ last_saved' = MapPut(last_saved, KeyOf(c), c)
    /\ Goto(c, "metadata")
    /\ UNCHANGED <<storeSide, asking, chunking, metadata_dir, embed>>

\* np.save writes the first part of the data
SaveDataLo(c) ==
    /\ At(c, "data")
    /\ embeddings_dir' = MapPut(embeddings_dir, KeyOf(c),
                                WriteLo(embeddings_dir[KeyOf(c)], caller[c].embedding))
    /\ Goto(c, "data_hi")
    /\ UNCHANGED <<storeSide, asking, chunking, metadata_dir, embed, last_saved>>

\* np.save writes the rest of the data and closes the file
SaveDataHi(c) ==
    /\ At(c, "data_hi")
    /\ embeddings_dir' = MapPut(embeddings_dir, KeyOf(c),
                                WriteHi(embeddings_dir[KeyOf(c)], caller[c].embedding))
    /\ last_saved' = MapPut(last_saved, KeyOf(c), c)
    /\ Goto(c, "metadata")
    /\ UNCHANGED <<storeSide, asking, chunking, metadata_dir, embed>>

\* _save_to_cache writes the metadata, and process_single returns
SaveMetadata(c) ==
    /\ At(c, "metadata")
    /\ metadata_dir' = MapPut(metadata_dir, KeyOf(c),
                              [text |-> caller[c].text, model_name |-> RaceModel])
    /\ caller' = [caller EXCEPT ![c].pc = "done",
                                ![c].from_cache = FALSE,
                                ![c].result = <<Whole(caller[c].embedding)>>]
    /\ UNCHANGED <<storeSide, asking, chunking, embeddings_dir, embed, last_saved>>

NextRace ==
    \E c \in Callers :
        \/ CallSingle(c)
        \/ Exists(c)
        \/ LoadFile(c)
        \/ Encode(c)
        \/ SaveOpen(c)
        \/ SaveHeader(c)
        \/ SaveData(c)
        \/ SaveDataLo(c)
        \/ SaveDataHi(c)
        \/ SaveMetadata(c)

SpecRace == InitEmbed /\ [][NextRace]_vars

(***************************************************************************)
(* Properties of the index.                                                *)
(***************************************************************************)
StoredIds(s) == Range(DictKeys(s.id_to_index))

\* ids and positions are in bijection over the dense positions, and the
\* metadata is that of the stored ids
Consistent(s) ==
    /\ \A i, j \in 1..Len(s.id_to_index) :
           s.id_to_index[i][2] = s.id_to_index[j][2] => i = j
    /\ DOMAIN s.index_to_id = 0..(ntotal(s.index) - 1)
    /\ \A id \in StoredIds(s) :
           /\ DictGet(s.id_to_index, id) \in DOMAIN s.index_to_id
           /\ s.index_to_id[DictGet(s.id_to_index, id)] = id
    /\ \A p \in DOMAIN s.index_to_id :
           /\ s.index_to_id[p] \in StoredIds(s)
           /\ DictGet(s.id_to_index, s.index_to_id[p]) = p
    /\ DOMAIN s.id_to_metadata = StoredIds(s)
    /\ ntotal(s.index) = Cardinality(StoredIds(s))
    /\ s.index.d = s.dimension

\* C1: after any sequence of add, delete and clear calls the stored ids are
\* unique: id_to_index and index_to_id are mutually inverse over the dense
\* positions 0..size-1, id_to_metadata has exactly the stored ids as keys,
\* and there are as many stored vectors as stored ids.
C1_IdsInBijection == Consistent(Self)

\* the stored ids whose metadata has the filter's value under every key
MatchingIds(s, filters) ==
    {id \in StoredIds(s) :
        /\ id \in DOMAIN s.id_to_metadata
        /\ _matches_filters(s.id_to_metadata[id], filters)}

\* C2: a search with a non-empty filter returns min(k, m) results, m being
\* the number of stored vectors whose metadata matches the filter, however
\* many vectors are stored and wherever the matching ones rank by distance.
C2_FilteredFill ==
    last.op = "search" /\ last.filters # EmptyDict /\ Len(last.q) = dimension =>
        /\ last.err = ErrNone
        /\ Len(last.results) =
              Min(last.k, Cardinality(MatchingIds(Self, last.filters)))

\* C4 as claimed: an add naming a stored id fails with the duplicate-id
\* error, an add of another dimension fails with the dimension error, and a
\* failed add leaves the index unchanged.
C4_AddErrorsAsClaimed ==
    [][last'.op = "add" =>
          /\ last'.given.stored => last'.err = ErrDuplicate
          /\ ~last'.given.dimension => last'.err = ErrDimension
          /\ last'.err # ErrNone => SelfNext = Self]_vars

\* C4 amended: an add of another dimension fails with the dimension error;
\* an add of the right dimension and the right numbers of ids and metadatas
\* that names a stored id fails with the duplicate-id error; an add with a
\* wrong number of ids or metadatas fails; every failed add leaves the
\* index unchanged.
C4_AddErrors ==
    [][last'.op = "add" =>
          LET shaped == /\ last'.given.dimension
                        /\ last'.given.ids
                        /\ last'.given.metadatas
          IN /\ ~last'.given.dimension => last'.err = ErrDimension
             /\ shaped /\ last'.given.stored => last'.err = ErrDuplicate
             /\ ~shaped => last'.err # ErrNone
             /\ last'.err # ErrNone => SelfNext = Self]_vars

\* an add named a stored id and failed on it, the index holding vectors
C4_Witness ==
    /\ last.op = "add"
    /\ last.err = ErrDuplicate
    /\ ntotal(index) >= 1

\* C5, on an index whose ids and positions are in bijection: delete(ids)
\* does not fail, returns size before minus size after, leaves no requested
\* id stored, and when it names every stored id leaves the index as clear()
\* does.
C5_DeleteCount ==
    [][\A ids \in SeqsUpTo(Ids, MaxBatch) :
          last'.op = "delete" /\ Consistent(Self) /\ DeleteCall(ids) =>
             /\ last'.err = ErrNone
             /\ last'.count = ntotal(index) - ntotal(index')
             /\ Range(ids) \cap StoredIds(SelfNext) = {}
             /\ StoredIds(Self) \subseteq Range(ids) => SelfNext = clear(Self)]_vars

\* C3: a load that fails leaves the index as it was: the stored vectors,
\* the size, both id<->position maps and the metadata are unchanged.
C3_FailedLoadLeavesIndex ==
    [][last'.op = "load" /\ last'.err # ErrNone =>
          /\ index'.xb = index.xb
          /\ id_to_index' = id_to_index
          /\ index_to_id' = index_to_id
          /\ id_to_metadata' = id_to_metadata]_vars

\* C6: load into a fresh index of the dimension of the persisted index
\* succeeds and reproduces it: the same vectors, id<->position maps and
\* metadata, and the same results for every search.
C6_RoundTrip ==
    [][/\ last'.op = "load"
       /\ saved # <<>>
       /\ Self = NewStore(saved[1].dimension)
       => /\ last'.err = ErrNone
          /\ SelfNext = saved[1]
          /\ \A q \in DiskVecs, k \in 1..MaxK, filters \in Filters :
                 /\ search(SelfNext, q, k, filters).err
                       = search(saved[1], q, k, filters).err
                 /\ search(SelfNext, q, k, filters).ret
                       = search(saved[1], q, k, filters).ret]_vars

\* a load has reproduced a persisted index that holds a vector at position 0
\* under an id that is not the first one that was stored
C6_Witness ==
    /\ last.op = "load"
    /\ last.err = ErrNone
    /\ saved = <<Self>>
    /\ ntotal(index) >= 1
    /\ index_to_id[0] = "b"

\* the results of a search, each for a row of the index: results[i] has the
\* distance of the i-th nearest row, and an id recorded for a row at that
\* distance, with the score 1 / (1 + distance)
NearestFirst(s, q, results) ==
    \A i \in 1..Len(results) :
        /\ \E p \in DOMAIN s.index_to_id :
               /\ p < ntotal(s.index)
               /\ s.index_to_id[p] = results[i].id
               /\ L2Sqr(q, s.index.xb[p + 1]) = results[i].distance
        /\ Cardinality({p \in 0..(ntotal(s.index) - 1) :
               L2Sqr(q, s.index.xb[p + 1]) < results[i].distance}) <= i - 1
        /\ Cardinality({p \in 0..(ntotal(s.index) - 1) :
               L2Sqr(q, s.index.xb[p + 1]) <= results[i].distance}) >= i
        /\ results[i].score = [num |-> 1, den |-> 1 + results[i].distance]
        /\ i > 1 =>
              /\ results[i - 1].distance <= results[i].distance
              /\ results[i - 1].score.num * results[i].score.den
                    >= results[i].score.num * results[i - 1].score.den

\* C7: a search without filters on an index of n vectors returns min(k, n)
\* results, the nearest rows by squared Euclidean distance, by non-decreasing
\* distance and non-increasing score; none on the empty index.
C7_TopK ==
    last.op = "search" /\ last.filters = EmptyDict /\ Len(last.q) = dimension =>
        /\ last.err = ErrNone
        /\ Len(last.results) = Min(last.k, ntotal(index))
        /\ NearestFirst(Self, last.q, last.results)

\* C8: every result of a filtered search has the filter's value under each
\* filter key, and the search without the filter returns no fewer results.
C8_FilterCorrect ==
    last.op = "search" /\ last.err = ErrNone /\ last.filters # EmptyDict =>
        /\ \A i \in 1..Len(last.results) : \A key \in DOMAIN last.filters :
               /\ key \in DOMAIN last.results[i].metadata
               /\ last.results[i].metadata[key] = last.filters[key]
        /\ Len(search(Self, last.q, last.k, EmptyDict).ret) >= Len(last.results)

\* the last search was for a vector of the add that came just before, with
\* k = 1 and no filter
SearchedInserted ==
    /\ last.op = "search"
    /\ last.k = 1
    /\ last.filters = EmptyDict
    /\ \E i \in 1..Len(inserted) : inserted[i][2] = last.q

\* the search returned one result at distance 0, with a score above 0.99,
\* under an id the vector was inserted with
ReturnedInserted ==
    /\ last.err = ErrNone
    /\ Len(last.results) = 1
    /\ last.results[1].distance = 0
    /\ 100 * last.results[1].score.num > 99 * last.results[1].score.den
    /\ \E i \in 1..Len(inserted) : inserted[i] = <<last.results[1].id, last.q>>

\* C9 as claimed: a search with k = 1 for a vector that was just inserted
\* returns the id it was inserted under at distance 0, whatever the index
\* held before.
C9_SelfSimilarityAsClaimed == SearchedInserted => ReturnedInserted

\* the rows the index held before the last add
RowsBefore == 1..(ntotal(index) - Len(inserted))

\* C9 amended: a search with k = 1 for a vector that was just inserted
\* returns the id it was inserted under at distance 0, provided no row the
\* index held before the insertion equals that vector.
C9_SelfSimilarity ==
    SearchedInserted /\ (\A r \in RowsBefore : index.xb[r] # last.q)
        => ReturnedInserted

\* a just inserted vector was searched for and found in an index that held
\* another vector before
C9_Witness ==
    /\ SearchedInserted
    /\ RowsBefore # {}
    /\ \A r \in RowsBefore : index.xb[r] # last.q
    /\ last.results # <<>>

\* C10: calls from concurrent threads are serialized: a search that has
\* returned has the results it has on a store that the calls made yield in
\* some serial order agreeing with their overlaps, and once no add or delete
\* is in flight the store is one of those, with ids and positions in
\* bijection.
C10_Serialized ==
    /\ pc[Reader] = "done" =>
          /\ frame[Reader].err = ErrNone
          /\ frame[Reader].results \in legit
    /\ InFlight = {} =>
          /\ Self \in {c.s : c \in lin}
          /\ Consistent(Self)

\* C11: with a separator list that ends with the empty separator, every
\* segment handed to the merge pass is at most chunk_size long and every
\* chunk returned is at most chunk_size + chunk_overlap long.
C11_ChunkBound ==
    split.op = "split_text" /\ splitter.separators[Len(splitter.separators)] = <<>> =>
        /\ \A i \in 1..Len(split.splits) : Len(split.splits[i]) <= splitter.chunk_size
        /\ \A i \in 1..Len(split.chunks) :
               Len(split.chunks[i]) <= splitter.chunk_size + splitter.chunk_overlap

\* a text was split into several chunks, one of them longer than chunk_size,
\* out of segments cut at more than one separator
C11_Witness ==
    /\ split.op = "split_text"
    /\ splitter.separators = DefaultSeparators
    /\ Len(split.chunks) >= 2
    /\ \E i \in 1..Len(split.chunks) : Len(split.chunks[i]) > splitter.chunk_size
    /\ \E i \in 1..Len(split.splits) : Len(split.splits[i]) = splitter.chunk_size
    /\ \E i \in 1..Len(split.splits) : Len(split.splits[i]) < splitter.chunk_size

RECURSIVE WithoutOverlap(_, _, _)
WithoutOverlap(chunks, chunk_overlap, i) ==
    IF i > Len(chunks) THEN <<>>
    ELSE (IF i = 1 THEN chunks[1]
          ELSE SubSeq(chunks[i],
                      Min(chunk_overlap, Len(chunks[i - 1])) + 1, Len(chunks[i])))
         \o WithoutOverlap(chunks, chunk_overlap, i + 1)

ChunkFields(i) ==
    LET record == split.records[i]
    IN /\ ReservedKeys \subseteq DOMAIN record
       /\ record["chunk_text"] = split.chunks[i]
       /\ record["chunk_index"] = i - 1
       /\ record["total_chunks"] = Len(split.chunks)
       /\ record["chunk_length"] = Len(split.chunks[i])
       /\ \A j \in 1..Len(split.records) :
              j # i => split.records[j]["chunk_id"] # record["chunk_id"]

\* C14 as claimed: split_with_metadata returns one record per chunk of
\* split_text, in order, with chunk_index, total_chunks, chunk_length and a
\* distinct chunk_id, and with every key of the caller's metadata at the
\* caller's value; none for an empty or whitespace-only text.
C14_RecordsAsClaimed ==
    split.op = "split_with_metadata" =>
        /\ Len(split.records) = Len(split.chunks)
        /\ split.chunks = split_text(splitter, split.text)
        /\ IsBlank(split.text) => split.records = <<>>
        /\ \A i \in 1..Len(split.records) :
               /\ ChunkFields(i)
               /\ \A key \in DOMAIN split.metadata :
                      /\ key \in DOMAIN split.records[i]
                      /\ split.records[i][key] = split.metadata[key]

\* C14 amended: as above, with every key of the caller's metadata that is
\* not one of chunk_index, total_chunks, chunk_id, chunk_text, chunk_length
\* at the caller's value.
C14_Records ==
    split.op = "split_with_metadata" =>
        /\ Len(split.records) = Len(split.chunks)
        /\ split.chunks = split_text(splitter, split.text)
        /\ IsBlank(split.text) => split.records = <<>>
        /\ \A i \in 1..Len(split.records) :
               /\ ChunkFields(i)
               /\ \A key \in DOMAIN split.metadata \ ReservedKeys :
                      /\ key \in DOMAIN split.records[i]
                      /\ split.records[i][key] = split.metadata[key]

\* a text was split into several records for a caller whose metadata has
\* the key chunk_index and another key, by a splitter called before
C14_Witness ==
    /\ split.op = "split_with_metadata"
    /\ Len(split.records) >= 2
    /\ issued > Len(split.records)
    /\ {"chunk_index", "source"} \subseteq DOMAIN split.metadata

(***************************************************************************)
(* Properties of the embedding cache.                                      *)
(***************************************************************************)
\* the store took every save of the call
WorkingStore(call) == \A i \in 1..Len(call.writes) : call.writes[i].outcome = "saved"

\* the call returned from process_single of a processor that uses the cache
SingleReturned(call) ==
    /\ call.op = "process_single"
    /\ call.self.use_cache
    /\ call.err = ErrNone

\* C15: with caching enabled and a working store, a process_single call
\* that follows a process_single call of the same model and text returns
\* from_cache = True and the vector the first call returned, and it does
\* not call the embedder.
C15_SecondCallCached ==
    [][(/\ SingleReturned(embed)
        /\ WorkingStore(embed)
        /\ embed'.op = "process_single"
        /\ embed'.self = embed.self
        /\ embed'.texts = embed.texts)
       => (/\ embed'.err = ErrNone
           /\ embed'.from_cache = <<TRUE>>
           /\ embed'.vectors = embed.vectors
           /\ embed'.encoded = <<>>)]_vars

\* a call is answered from the cache with the vector that an earlier call
\* of the same model and text computed
C15_Witness ==
    /\ SingleReturned(embed)
    /\ embed.from_cache = <<TRUE>>
    /\ embed.encoded = <<>>
    /\ embed.vectors[1].model_name = embed.self.model_name
    /\ embed.vectors[1].text = embed.texts[1]

\* C16: cache entries are coupled to the model: a processor's lookup finds
\* only what was stored under its own model identifier and the same text, so
\* a cache hit returns a vector that was computed by the processor's model
\* for the text of the call, never one stored by a processor of another
\* model.
C16_ModelCoupled ==
    (SingleReturned(embed) /\ embed.from_cache = <<TRUE>>)
        => /\ embed.vectors[1].model_name = embed.self.model_name
           /\ embed.vectors[1].text = embed.texts[1]

\* C17: the cache is write-once per key: in any sequence of process_single,
\* process_batch and clear_cache calls of one caller, a key is written only
\* when no readable entry exists for it, also when a batch holds the same
\* uncached text more than once.
C17_WriteOnce ==
    \A i \in 1..Len(embed.writes) : ~embed.writes[i].readable

\* C18: if the embedder's batch operation fails during process_batch, the
\* call fails with that error and the cache holds exactly the entries it
\* held before the call.
C18_FailedBatchWritesNothing ==
    [][(embed'.op = "process_batch" /\ embed'.raised # ErrNone)
       => (/\ embed'.err = embed'.raised
           /\ embed'.writes = <<>>
           /\ embeddings_dir' = embeddings_dir
           /\ metadata_dir' = metadata_dir)]_vars

\* encode_batch raised in a batch of a caching processor that had a text to
\* compute beside a text that was cached
C18_Witness ==
    /\ embed.op = "process_batch"
    /\ embed.self.use_cache
    /\ embed.raised = ErrEncode
    /\ embed.err = ErrEncode
    /\ embed.encoded # <<>>
    /\ \E text \in Range(embed.texts) :
           _load_from_cache(embed.self, CacheDirs, _compute_hash(embed.self, text)) # <<>>

\* the next call is process_single of a caching processor on a text whose
\* entry cannot be read, and the embedder returns
OnCorruptEntry ==
    /\ embed'.op = "process_single"
    /\ embed'.self.use_cache
    /\ embed'.raised = ErrNone
    /\ LET text_hash == _compute_hash(embed'.self, embed'.texts[1])
       IN /\ text_hash \in DOMAIN embeddings_dir
          /\ embeddings_dir[text_hash] = Corrupt

\* the call returned a vector that its embedder computed for its text
FreshVector ==
    /\ embed'.err = ErrNone
    /\ embed'.from_cache = <<FALSE>>
    /\ embed'.encoded = <<embed'.texts>>
    /\ embed'.vectors[1] \in Encodings(embed'.self.model_name, embed'.texts[1])

\* a lookup of the text of the call after it is a hit with the vector returned
NextLookupHits ==
    _load_from_cache(embed'.self, Dirs(embeddings_dir', metadata_dir'),
                     _compute_hash(embed'.self, embed'.texts[1])) = embed'.vectors

Done == {c \in Callers : caller[c].pc = "done"}

\* C20: when two callers process the same uncached text at the same time,
\* neither call fails, each returns a vector that the embedder computed for
\* the text, and afterwards the cache holds one readable entry for the key,
\* equal to the vector of the caller that wrote last; writers of different
\* keys leave each other's entries alone.
C20_BenignRace ==
    /\ \A c \in Done :
           \E vector \in Encodings(RaceModel, caller[c].text) :
               caller[c].result = <<Whole(vector)>>
    /\ Done = Callers
           => \A c \in Callers :
                  ~caller[c].from_cache
                      => /\ KeyOf(c) \in DOMAIN last_saved
                         /\ np_load(embeddings_dir[KeyOf(c)])
                                = <<Whole(caller[last_saved[KeyOf(c)]].embedding)>>

(***************************************************************************)
(* The frame of delete.                                                    *)
(***************************************************************************)
PositionOf(s, id) == DictGet(s.id_to_index, id)

\* the first n of seq
Prefix(seq, n) == SubSeq(seq, 1, Min(n, Len(seq)))

\* the ranking of every stored vector for q, nearest first
Ranking(s, q) == search(s, q, ntotal(s.index), EmptyDict).ret

\* the store t holds what the store s held except for ids
DeleteFrame(s, t, ids) ==
    LET survivors == StoredIds(s) \ Range(ids)
    IN /\ StoredIds(t) = survivors
       /\ \A id \in survivors :
              /\ PositionOf(s, id) < ntotal(s.index)
              /\ PositionOf(t, id) < ntotal(t.index)
              /\ IndexReconstruct(t.index, PositionOf(t, id))
                     = IndexReconstruct(s.index, PositionOf(s, id))
              /\ id \in DOMAIN t.id_to_metadata
              /\ t.id_to_metadata[id] = s.id_to_metadata[id]
       /\ \A id1 \in survivors, id2 \in survivors :
              PositionOf(s, id1) < PositionOf(s, id2)
                  => PositionOf(t, id1) < PositionOf(t, id2)
       /\ {PositionOf(t, id) : id \in survivors} = 0..(ntotal(t.index) - 1)
       /\ \A q \in Vecs, k \in 1..(MaxSize + 1) :
              Len(q) = s.dimension
                  => search(t, q, k, EmptyDict).ret
                         = Prefix(SelectSeq(Ranking(s, q),
                                            LAMBDA result : result.id \notin Range(ids)),
                                  k)

\* C28: after delete(ids) every stored id that ids does not name is still
\* stored with its vector and its metadata, the survivors keep their order
\* and fill the positions 0..size-1, and every search returns the ranking
\* from before the delete without the deleted ids.
C28_DeleteFrame ==
    [][\A ids \in SeqsUpTo(Ids, MaxBatch) :
          (last'.op = "delete" /\ last'.err = ErrNone /\ DeleteCall(ids))
              => DeleteFrame(Self, SelfNext, ids)]_vars

\* the same on a store whose ids and positions are in bijection
C28_DeleteFrameOfConsistent ==
    [][\A ids \in SeqsUpTo(Ids, MaxBatch) :
          (last'.op = "delete" /\ last'.err = ErrNone /\ Consistent(Self)
           /\ DeleteCall(ids))
              => DeleteFrame(Self, SelfNext, ids)]_vars

(***************************************************************************)
(* What process_batch returns.                                             *)
(***************************************************************************)
\* the texts that a lookup before the call does not find, in input order
Uncached(self, dirs, texts) ==
    SelectSeq(texts, LAMBDA text :
                  _load_from_cache(self, dirs, _compute_hash(self, text)) = <<>>)

\* the next call is a process_batch that returns
BatchReturns == embed'.op = "process_batch" /\ embed'.err = ErrNone

\* row i is the vector of texts[i], read from the cache as it was before the
\* call or computed by the embedder for that text
RowsInOrder ==
    /\ Len(embed'.vectors) = Len(embed'.texts)
    /\ Len(embed'.from_cache) = Len(embed'.texts)
    /\ \A i \in 1..Len(embed'.texts) :
           LET cached == _load_from_cache(embed'.self, CacheDirs,
                                          _compute_hash(embed'.self, embed'.texts[i]))
           IN /\ embed'.from_cache[i] <=> cached # <<>>
              /\ embed'.from_cache[i] => embed'.vectors[i] = cached[1]
              /\ ~embed'.from_cache[i]
                     => embed'.vectors[i]
                            \in Encodings(embed'.self.model_name, embed'.texts[i])

\* encode_batch is called once with the uncached texts in input order, and
\* not at all when there is none
EncodedOnce ==
    LET uncached == Uncached(embed'.self, CacheDirs, embed'.texts)
    IN embed'.encoded = IF uncached = <<>> THEN <<>> ELSE <<uncached>>

\* every vector that was computed is the readable entry of its key
NewVectorsStored ==
    \A i \in 1..Len(embed'.texts) :
        ~embed'.from_cache[i]
            => _load_from_cache(embed'.self, Dirs(embeddings_dir', metadata_dir'),
                                _compute_hash(embed'.self, embed'.texts[i]))
                   = <<embed'.vectors[i]>>

\* cached + computed = total = len(texts)
StatsAddUp ==
    /\ embed'.stats.total = Len(embed'.texts)
    /\ embed'.stats.cached + embed'.stats.computed = embed'.stats.total
    /\ embed'.stats.cached = Cardinality({i \in 1..Len(embed'.texts) : embed'.from_cache[i]})

MaxQueries == 2

\* a query with what the embedder answers when it is asked to encode it (an
\* exception, a vector, a vector of another dimension); it is not asked for
\* the queries that are empty or blank
Ask(query, encoded) == [encoded |-> encoded, query |-> query]

BatchAsks == {Ask(<<" ">>, <<>>), Ask(<<"q">>, <<>>), Ask(<<"q">>, <<<<0>>>>)}

Asks == BatchAsks \cup {Ask(<<>>, <<>>), Ask(<<"q">>, <<<<0, 0>>>>)}

\* what the embedder answers to encode_batch on n documents: an exception,
\* or a matrix of n equal rows
BatchEncodeds(n) == {<<>>} \cup {<<[j \in 1..n |-> v]>> : v \in Vecs}

\* min_score=None, or a threshold
NoThreshold == [min_score |-> Frac(0, 1), hasMinScore |-> FALSE]

Threshold(a, b) == [min_score |-> Frac(a, b), hasMinScore |-> TRUE]

Thresholds == {NoThreshold, Threshold(1, 2), Threshold(3, 4)}

\* the retriever's call is recorded and the store becomes what it left
RetrieverCalled(rec, out) ==
    /\ Becomes(out.s)
    /\ retr' = [rec EXCEPT !.err = out.err, !.cause = out.cause, !.calls = out.calls]
    /\ UNCHANGED <<disk, last, saved, inserted, conc, chunking,
                   embeddings_dir, metadata_dir, embed, racing, rag>>

RetrieveCall(query, k, t, filters, encoded) ==
    LET out == retrieve(Self, query, k, t.hasMinScore, t.min_score, filters, encoded)
    IN RetrieverCalled([NoRetrieval EXCEPT !.op = "retrieve", !.queries = <<query>>,
                           !.k = k, !.hasMinScore = t.hasMinScore,
                           !.min_score = t.min_score, !.filters = filters,
                           !.encodeds = <<encoded>>, !.results = out.ret],
                       out)

Retrieve ==
    \E ask \in Asks, k \in {1, MaxK}, t \in Thresholds,
       filters \in {EmptyDict, [x \in Keys |-> "A"]} :
        RetrieveCall(ask.query, k, t, filters, ask.encoded)

BatchRetrieveCall(queries, k, t, filters, encodeds) ==
    LET out == batch_retrieve(Self, queries, k, t.hasMinScore, t.min_score,
                              filters, encodeds)
    IN RetrieverCalled([NoRetrieval EXCEPT !.op = "batch_retrieve",
                           !.queries = queries, !.k = k,
                           !.hasMinScore = t.hasMinScore, !.min_score = t.min_score,
                           !.filters = filters, !.encodeds = encodeds,
                           !.all_results = out.ret],
                       out)

BatchRetrieve ==
    \E asks \in SeqsUpTo(BatchAsks, MaxQueries), t \in {NoThreshold, Threshold(3, 4)} :
        BatchRetrieveCall([i \in 1..Len(asks) |-> asks[i].query], MaxK, t, EmptyDict,
                          [i \in 1..Len(asks) |-> asks[i].encoded])

AddDocumentsCall(documents, ids, hasMetadatas, metadatas, encoded) ==
    LET out == add_documents(Self, documents, ids, hasMetadatas, metadatas, encoded)
    IN RetrieverCalled([NoRetrieval EXCEPT !.op = "add_documents",
                           !.queries = documents, !.ids = ids,
                           !.encodeds = <<encoded>>],
                       out)

\* the ids of n documents: different ones, the same one for all, or one id
\* too many
DocumentIds(n) ==
    {ids \in [1..n -> Ids] : \A i, j \in 1..n : ids[i] = ids[j] => i = j}
    \cup [1..n -> {"a"}] \cup [1..(n + 1) -> {"a"}]

\* documents with their ids, without metadatas or with the same metadata for
\* each
AddDocuments ==
    \E n \in 1..MaxBatch :
        \E ids \in DocumentIds(n),
           hasMetadatas \in BOOLEAN, encoded \in BatchEncodeds(n) :
            /\ ntotal(index) + n <= MaxSize
            /\ AddDocumentsCall([j \in 1..n |-> <<"q">>], ids, hasMetadatas,
                                [j \in 1..n |-> [x \in Keys |-> "A"]], encoded)

NextRetriever == AddDocuments \/ Retrieve \/ BatchRetrieve

InitRetriever == Init /\ dimension = 1

SpecRetriever == InitRetriever /\ [][NextRetriever]_vars

(***************************************************************************)
(* Properties of the retriever.                                            *)
(***************************************************************************)
\* the retriever's last call left every field of the store as it was
StoreUntouched == SelfNext = Self

\* C21: retrieve on a query that is empty or only whitespace raises the
\* empty-query error without having called the embedder or the store's
\* search, and the store is as it was.
C21_EmptyQueryFailsFirst ==
    [][(retr'.op = "retrieve" /\ IsBlank(retr'.queries[1]))
           => /\ retr'.err = ErrEmptyQuery
              /\ retr'.calls = <<>>
              /\ StoreUntouched]_vars

\* a blank query was refused although the embedder would have failed on it
C21_Witness ==
    /\ retr.op = "retrieve"
    /\ retr.queries = <<<<" ">>>>
    /\ retr.err = ErrEmptyQuery
    /\ ntotal(index) > 0

\* retrieve returned
RetrieveReturned == retr.op = "retrieve" /\ retr.err = ErrNone

\* what the store's search answers to the call retr records
SearchedFor == search(Self, retr.encodeds[1][1], retr.k, retr.filters).ret

\* C22: when min_score is given, retrieve returns the results of the one
\* search it made whose score is at least min_score, in the order of the
\* search; it may return fewer than k and does not search again.
C22_MinScoreFilter ==
    (RetrieveReturned /\ retr.hasMinScore)
        => /\ retr.calls = <<"encode", "search">>
           /\ \E kept \in SUBSET (1..Len(SearchedFor)) :
                  /\ \A i \in 1..Len(SearchedFor) :
                         i \in kept <=> ScoreAtLeast(SearchedFor[i].score, retr.min_score)
                  /\ Len(retr.results) = Cardinality(kept)
                  /\ \A i \in kept :
                         retr.results[Cardinality({j \in kept : j <= i})] = SearchedFor[i]

\* the search found two results and the threshold kept the first of them only
C22_Witness ==
    /\ RetrieveReturned
    /\ retr.hasMinScore
    /\ retr.k = 2
    /\ Len(SearchedFor) = 2
    /\ Len(retr.results) = 1
    /\ retr.results[1] = SearchedFor[1]

\* what retrieve does on the i-th query of the batch retr records
SlotAlone(i) ==
    retrieve(Self, retr.queries[i], retr.k, retr.hasMinScore, retr.min_score,
             retr.filters, retr.encodeds[i])

\* C23: batch_retrieve on a list of queries that is not empty does not raise
\* when queries fail: it returns one list per query in the order of the
\* queries, the results of retrieve on the query where retrieve returns and
\* the empty list where it raises, whatever happens to the other queries.
C23_BatchIsolatesFailures ==
    (retr.op = "batch_retrieve" /\ retr.queries # <<>>)
        => /\ retr.err = ErrNone
           /\ Len(retr.all_results) = Len(retr.queries)
           /\ \A i \in 1..Len(retr.queries) :
                  retr.all_results[i] =
                      IF SlotAlone(i).err = ErrNone THEN SlotAlone(i).ret ELSE <<>>

\* the embedder failed on the first query of a batch and the second query
\* found documents
C23_Witness ==
    /\ retr.op = "batch_retrieve"
    /\ Len(retr.queries) = 2
    /\ SlotAlone(1).err = ErrRetrieval
    /\ retr.all_results[1] = <<>>
    /\ SlotAlone(2).err = ErrNone
    /\ retr.all_results[2] # <<>>

\* add_documents reached the store's add, which raised a dimension error or
\* a duplicate-id error
IndexRefused ==
    /\ retr'.op = "add_documents"
    /\ retr'.calls = <<"encode_batch", "add">>
    /\ retr'.cause \in {ErrDimension, ErrDuplicate}

\* C24 as claimed: when the store's add fails with a dimension error or a
\* duplicate-id error, add_documents fails with an error of that same kind
\* and the store is as it was.
C24_SameErrorAsIndex ==
    [][IndexRefused => (retr'.err = retr'.cause /\ StoreUntouched)]_vars

\* C24: when the store's add fails with a dimension error or a duplicate-id
\* error, add_documents fails with the RuntimeError "Failed to add
\* documents" that wraps that error, and the store is as it was.
C24_WrapsErrorOfIndex ==
    [][IndexRefused => (retr'.err = ErrAddDocuments /\ StoreUntouched)]_vars

\* a document was added under an id the store holds already
C24_Witness ==
    /\ retr.op = "add_documents"
    /\ retr.cause = ErrDuplicate
    /\ retr.err = ErrAddDocuments
    /\ ntotal(index) = 1

(***************************************************************************)
(* An AnswerGenerator over a retriever on the store: documents are indexed *)
(* first, then requests are served one after the other, each through its   *)
(* steps.  The caller of stream asks for the fragments one by one and may   *)
(* leave a generator where it waits.                                        *)
(***************************************************************************)
MaxFragments == 2

\* a metadata dict of the given keys
DocMeta(keys, content, title) ==
    [x \in keys |-> IF x = "title" THEN title ELSE content]

\* the documents indexed: an id, the vector the embedder gave, the metadata
Documents ==
    {[metadata |-> DocMeta({"content", "title"}, "alpha", "T"), id |-> "a", embedding |-> <<1>>],
     [metadata |-> DocMeta({"text"}, "beta", ""), id |-> "b", embedding |-> <<0>>],
     [metadata |-> EmptyDict, id |-> "b", embedding |-> <<1>>]}

Generators == {[include_metadata |-> b] : b \in BOOLEAN}

RagQueries == {<<>>, <<" ">>, <<"q">>}

\* what the LLM's stream answers when it is asked for a fragment
Chunk(kind, content) == [content |-> content, kind |-> kind]

Chunks ==
    {Chunk("chunk", <<"x">>), Chunk("chunk", <<"y">>), Chunk("end", <<>>),
     Chunk("raise", <<>>)}

\* what the LLM answers to generate: an exception or a text
Completions == {<<>>, <<<<"x">>>>, <<<<"x", "y">>>>}

\* the phases in which no call is running: before the first request, after
\* a response or an exception, and where a generator of stream waits for
\* its caller
Resting == {"IDLE", "COMPLETE", "FAILED", "CREATED", "YIELDED"}

\* a step of the generator: the store and everything else stay
Serving(g) ==
    /\ rag' = g
    /\ UNCHANGED <<storeSide, chunking, embeddings_dir, metadata_dir, embed, racing, retr>>

IndexDocument ==
    \E doc \in Documents :
        /\ rag.op = "none"
        /\ ntotal(index) < MaxSize
        /\ add(Self, <<doc.embedding>>, <<doc.id>>, TRUE, <<doc.metadata>>).err = ErrNone
        /\ Becomes(add(Self, <<doc.embedding>>, <<doc.id>>, TRUE, <<doc.metadata>>).s)
        /\ UNCHANGED <<disk, last, saved, inserted, conc, pipeline>>

CallGenerate ==
    \E self \in Generators, query \in RagQueries, k \in {1, MaxK} :
        /\ rag.phase \in Resting
        /\ Serving(generate(self, query, k))

CallStream ==
    \E self \in Generators, query \in RagQueries, k \in {1, MaxK} :
        /\ rag.phase \in Resting
        /\ Serving(stream(self, query, k))

PullNext ==
    /\ rag.op = "stream"
    /\ rag.phase \in {"CREATED", "YIELDED"}
    /\ Serving(Pull(rag))

RetrieveStep ==
    \E encoded \in {<<>>, <<<<0>>>>} :
        /\ rag.phase = "RETRIEVING"
        /\ Serving(Retrieving(rag, Self, encoded))

FormatStep ==
    /\ rag.phase = "CONTEXT_FORMATTING"
    /\ Serving(Formatting(rag))

GenerateStep ==
    \E llm_response \in Completions :
        /\ rag.op = "generate"
        /\ rag.phase = "GENERATING"
        /\ Serving(Generating(rag, llm_response))

StreamStep ==
    /\ rag.op = "stream"
    /\ rag.phase = "GENERATING"
    /\ Serving(Streaming(rag))

FragmentStep ==
    \E chunk \in Chunks :
        /\ rag.phase = "STREAMING"
        /\ chunk.kind = "chunk" => Len(rag.produced) < MaxFragments
        /\ Serving(Fragment(rag, chunk))

NextRag ==
    \/ IndexDocument
    \/ CallGenerate \/ CallStream \/ PullNext
    \/ RetrieveStep \/ FormatStep \/ GenerateStep \/ StreamStep \/ FragmentStep

InitRag == Init /\ dimension = 1

SpecRag == InitRag /\ [][NextRag]_vars

(***************************************************************************)
(* Properties of the answer generator.                                     *)
(***************************************************************************)
\* C25: generate and stream on a query that is empty or only whitespace fail
\* before retrieve is called on the retriever, and the LLM is not invoked.
C25_FailsBeforeRetrieve ==
    (rag.op \in {"generate", "stream"} /\ IsBlank(rag.query))
        => (rag.retrieve_calls = 0 /\ rag.llm_calls = 0)

\* "".join of the fragments
RECURSIVE Concatenation(_)
Concatenation(fragments) ==
    IF fragments = <<>> THEN <<>>
    ELSE Head(fragments) \o Concatenation(Tail(fragments))

C27_SourcesFollowResults ==
    rag.response # <<>>
        => LET sources == rag.response[1].sources
               context == rag.prompted[2].context
           IN /\ Len(sources) = Len(rag.results)
              /\ Len(context.parts) = Len(rag.results)
              /\ \A i \in 1..Len(rag.results) :
                     /\ sources[i].source_id = i
                     /\ sources[i].score = rag.results[i].score
                     /\ sources[i].metadata = rag.results[i].metadata
                     /\ sources[i].doc_id = <<rag.results[i].id>>
                     /\ context.parts[i].idx = i
                     /\ context.parts[i].content = Content(rag.results[i])
                     /\ context.parts[i].content = sources[i].content
                     /\ context.parts[i].relevance = TwoDecimals(rag.results[i].score)

\* the document indexed second is the nearer one and is the first source
C27_Witness ==
    /\ rag.response # <<>>
    /\ Len(rag.results) = 2
    /\ DictKeys(id_to_index) = <<"a", "b">>
    /\ rag.response[1].sources[1].doc_id = <<"b">>
    /\ rag.response[1].sources[1].content = "beta"
    /\ rag.response[1].sources[2].doc_id = <<"a">>
    /\ rag.prompted[2].context.parts[2].meta_parts = <<<<"title", "T">>>>

\* C30: a generate request goes through RETRIEVING, CONTEXT_FORMATTING,
\* GENERATING and COMPLETE in this order: the retriever is called once and
\* the LLM is invoked once and after the retrieval has returned, also when
\* nothing was retrieved (the context is then "No relevant context found."
\* and the response has no sources); when the retrieval fails the LLM is
\* not invoked and no response is built.
C30_GenerateInOrder ==
    rag.op = "generate"
        => /\ rag.llm_calls > 0
                  => /\ rag.retrieve_calls = 1
                     /\ SubSeq(rag.trace, 1, 3)
                            = <<"RETRIEVING", "CONTEXT_FORMATTING", "GENERATING">>
           /\ rag.response # <<>> <=> rag.phase = "COMPLETE"
           /\ rag.phase = "COMPLETE"
                  => /\ rag.trace = <<"RETRIEVING", "CONTEXT_FORMATTING",
                                      "GENERATING", "COMPLETE">>
                     /\ rag.retrieve_calls = 1
                     /\ rag.llm_calls = 1
                     /\ rag.results = <<>>
                            => /\ rag.prompted[2].context = NoContext
                               /\ rag.response[1].sources = <<>>
           /\ (rag.phase = "FAILED" /\ rag.err # "LLMError")
                  => /\ rag.trace = <<"RETRIEVING", "FAILED">>
                     /\ rag.retrieve_calls = 1
                     /\ rag.llm_calls = 0
                     /\ rag.response = <<>>

\* a request on an empty store was answered by the LLM
C30_Witness ==
    /\ rag.op = "generate"
    /\ rag.phase = "COMPLETE"
    /\ rag.results = <<>>
    /\ rag.llm_calls = 1
    /\ rag.response[1].answer = <<"x", "y">>
    /\ rag.response[1].sources = <<>>

====
